---- MODULE Spec2Model ----
(***************************************************************************)
(* A model of pgcopydb's work directory ledger (copydb.c) and of the       *)
(* summary files that serve as lock and done files (summary.c).            *)
(*                                                                         *)
(* The file system is a set of directories and a map from file paths to    *)
(* file contents.  A path is a sequence of path components; the work       *)
(* directory given with --dir is the one-component path <<"dir">>.         *)
(***************************************************************************)
EXTENDS Integers, Sequences, FiniteSets, TLC

\* Number of pgcopydb parent processes started over the life of the model.
MaxRuns == 3

\* Parent processes have the pids 1..MaxRuns, handed out in order.
Pids == 1 .. MaxRuns

\* onFilePid = 0: no pid has been read from a pidfile.
NoPid == 0

\* Number of runs of the main command in the study of the table copy.
CopyRuns == 2

\* Number of table COPY worker processes a parent forks (--table-jobs).
TableJobs == 2

\* Number of partitions of the table that is split (0: the table is not split).
PartCount == 2

\* Number of CREATE INDEX worker processes a parent forks (--index-jobs).
IndexJobs == 2

\* Largest number of partitions of a table, in the study of the COPY queries.
SplitParts == 3

\* Largest number of key values in a partition.
SplitWidth == 3

\* Largest LSN the source sends in the study of the replication stream.
MaxLSN == 6

\* Number of times apply is started in the study of the replication stream.
ApplyRuns == 2

\* Number of sub-processes of a parent that waits for them.
MaxChildren == 2

Kids == 1 .. MaxChildren

\* The exit codes of a sub-process are 0 .. MaxExitCode.
MaxExitCode == 2

VARIABLES
    fs,        \* the file system: [dirs: set of paths, files: path -> contents]
    pstate,    \* pid -> "unborn" | "calling" | "main" | "aux" | "exited"
    call,      \* the call of copydb_init_workdir that is about to return, if any
    wstate,    \* worker -> [pc, run, item]: the table COPY workers
    sigterm,   \* the parents whose process group has been sent SIGTERM
    acquired,  \* history: work-item -> how many times a worker of the
               \*          current run has taken its lock file
    committed, \* history: the COPYs committed on the target since the work
               \*          directory was last emptied, as [item, pid]
    target,    \* work-item -> how many times its rows are in the target
               \*              table
    rstate,    \* pid -> [pc, restart, resume, auxilliary]: where the process
               \*        is in copydb_init_workdir, when its steps interleave
    children,  \* child -> [st, status, signalled]: the sub-processes of a
               \*          parent that waits for them
    wait,      \* [fn, pc, allReturnCodeAreZero, result]: the parent in
               \* copydb_fatal_exit or copydb_wait_for_subprocesses
    reaped,    \* history: the wait statuses the current call has collected
    ppc,       \* where the parent is in the copy of the table data and the
               \* work that follows it
    tw,        \* table worker -> [pc, item]
    sem,       \* the value of the table semaphore
    indexQueue,  \* the messages in the index queue, oldest first
    vacuumQueue, \* the messages in the vacuum queue, oldest first
    iw,        \* index worker -> [pc, job]
    vw,        \* vacuum worker -> [pc, job]
    truncated, \* history: table oid -> how many times TRUNCATE has run
    fanout,    \* history: table oid -> how many times its index-list file
               \*          has been written and its jobs enqueued
    sent,      \* history: the jobs enqueued so far, as [queue, oid, n],
               \*          n the number of times
    copySpecs, \* the CopyDataSpec of the parent: [consistent, sourceSnapshot]
    snapshotArg, \* history: the identifier given with --snapshot, if any
    snpc,      \* where the parent is with its snapshot
    snrun,     \* the number of runs started in the study of the snapshot
    sw,        \* worker -> [pc, tableSpecs, copySpecs]: the workers that
               \*           import the snapshot
    imports,   \* history: the imports of a snapshot by the workers, as
               \*          [worker, snapshot, exporterOpen]
    probe,  \* the last application of a function studied on its own: [fn, input, output]
    sentinel,  \* the pgcopydb sentinel on the target: [apply, startpos, endpos]
    jsonFiles,  \* CDC directory: firstLSN -> [lines, closed], the JSON files
    sqlFiles,  \* CDC directory: firstLSN -> [lines, renamed], the SQL files
    transformQueue,  \* the transform queue: first LSNs of JSON files, oldest first
    streamContext,  \* receive: [pc, firstLSN, lsn, xid], the StreamContext
    transformWorker,  \* the transform subprocess: [pc, firstLSN]
    applyContext,  \* apply: [pc, previousLSN, endpos, reachedEndPos,
                   \*         sqlFileName, line, skip, tx, run]
    origin,    \* the LSN the replication origin records on the target
    applied,   \* the xids of the transactions apply has committed on the
               \* target, in order
    skipped    \* history: the transactions apply has skipped, as [run, xid]

vars == <<fs, pstate, call, wstate, sigterm, acquired, committed, target,
          rstate, children, wait, reaped, ppc, tw, sem, indexQueue,
          vacuumQueue, iw, vw, truncated, fanout, sent,
          copySpecs, snapshotArg, snpc, snrun, sw, imports,
          probe,
          sentinel,
          jsonFiles,
          sqlFiles,
          transformQueue,
          streamContext,
          transformWorker, applyContext, origin, applied, skipped>>

\* the variables of the study of the snapshot
snapVars == <<copySpecs, snapshotArg, snpc, snrun, sw, imports>>

\* the variables of the logical replication stream
streamVars == <<sentinel, jsonFiles, sqlFiles, transformQueue, streamContext,
                transformWorker, applyContext, origin, applied, skipped>>

\* the variables of the studies that follow the table copy
extVars == <<snapVars, probe, streamVars>>

\* what the parent and the workers leave alone when they deal with the
\* snapshot
notSnapVars == <<probe, streamVars>>

postVars == <<ppc, tw, sem, indexQueue, vacuumQueue, iw, vw, truncated,
              fanout, sent>>

\* what the table copy with its index and vacuum workers leaves alone
notPostVars == <<pstate, call, wstate, sigterm, acquired, committed, target,
                 rstate, children, wait, reaped, extVars>>

waitVars == <<children, wait, reaped>>

\* what the waiting parent and its sub-processes leave alone
notWaitVars == <<fs, pstate, call, wstate, sigterm, acquired, committed,
                 target, rstate, ppc, tw, sem, indexQueue, vacuumQueue, iw,
                 vw, truncated, fanout, sent, extVars>>

workerVars == <<wstate, sigterm, acquired, committed, target>>

\* the variables of the ledger, of the table copy and of what follows it,
\* but for the file system
baseVars == <<pstate, call, workerVars, rstate, waitVars, postVars>>

-----------------------------------------------------------------------------
(* Paths *)

\* a path p is dir itself or lies below dir
IsBelowOrAt(dir, p) ==
    /\ Len(p) >= Len(dir)
    /\ SubSeq(p, 1, Len(dir)) = dir

\* the directories a mkdir -p of dir creates: dir and all its ancestors
Ancestors(dir) == { SubSeq(dir, 1, n) : n \in 1 .. Len(dir) }

ParentDir(p) == SubSeq(p, 1, Len(p) - 1)

\* copydb_prepare_filepaths, with --dir given: every path the top-level
\* operations use, computed from the top directory.
copydb_prepare_filepaths(auxilliary) ==
    LET topdir == <<"dir">>
    IN [ topdir    |-> topdir,
         pidfile   |-> IF auxilliary
                       THEN topdir \o <<"pgcopydb.aux.pid">>
                       ELSE topdir \o <<"pgcopydb.pid">>,
         snfile    |-> topdir \o <<"snapshot">>,
         schemadir |-> topdir \o <<"schema">>,
         rundir    |-> topdir \o <<"run">>,
         tbldir    |-> topdir \o <<"run", "tables">>,
         idxdir    |-> topdir \o <<"run", "indexes">>,
         schemafile |-> topdir \o <<"schema.json">>,
         done |-> [ preDataDump     |-> topdir \o <<"run", "dump-pre.done">>,
                    postDataDump    |-> topdir \o <<"run", "dump-post.done">>,
                    preDataRestore  |-> topdir \o <<"run", "restore-pre.done">>,
                    postDataRestore |-> topdir \o <<"run", "restore-post.done">>,
                    tables          |-> topdir \o <<"run", "tables.done">>,
                    indexes         |-> topdir \o <<"run", "indexes.done">>,
                    sequences       |-> topdir \o <<"run", "sequences.done">>,
                    blobs           |-> topdir \o <<"run", "blobs.done">> ],
         cdcdir    |-> topdir \o <<"cdc">> ]

\* the paths that do not depend on the kind of process
Paths == copydb_prepare_filepaths(FALSE)

\* the eight top-level done markers
DoneNames == DOMAIN Paths.done
DoneMarkers == { Paths.done[n] : n \in DoneNames }

-----------------------------------------------------------------------------
(* File system primitives, as copydb.c uses them *)

EmptyFs == [dirs |-> {}, files |-> [p \in {} |-> 0]]

directory_exists(f, dir) == dir \in f.dirs

file_exists(f, path) == path \in DOMAIN f.files

\* the files of f other than those in the set gone
FilesWithout(f, gone) ==
    [p \in (DOMAIN f.files) \ gone |-> f.files[p]]

\* write_file creates or truncates the file; it fails, changing nothing,
\* when the directory of the file does not exist.
write_file(f, path, contents) ==
    IF directory_exists(f, ParentDir(path))
    THEN [f EXCEPT !.files =
              [p \in (DOMAIN f.files) \cup {path} |->
                  IF p = path THEN contents ELSE f.files[p]]]
    ELSE f

unlink_file(f, path) == [f EXCEPT !.files = FilesWithout(f, {path})]

\* rm -rf dir && mkdir -p dir
ensure_empty_dir(f, dir) ==
    [dirs  |-> { d \in f.dirs : ~IsBelowOrAt(dir, d) } \cup Ancestors(dir),
     files |-> FilesWithout(f, { p \in DOMAIN f.files : IsBelowOrAt(dir, p) })]

\* mkdir -p dir
pg_mkdir_p(f, dir) == [f EXCEPT !.dirs = @ \cup Ancestors(dir)]

-----------------------------------------------------------------------------
(* pidfile.c, as copydb_init_workdir relies on it *)

\* read_pidfile succeeds when the pid in the file belongs to a running
\* process; otherwise it removes the (stale) file and fails.
read_pidfile(f, pidfile, running) ==
    LET onFilePid == f.files[pidfile]
    IN IF onFilePid \in running
       THEN [ok |-> TRUE, onFilePid |-> onFilePid, fs |-> f]
       ELSE [ok |-> FALSE, onFilePid |-> NoPid, fs |-> unlink_file(f, pidfile)]

\* create_pidfile writes the pid to the pidfile
create_pidfile(f, pidfile, pid) == write_file(f, pidfile, pid)

-----------------------------------------------------------------------------
(* copydb_inspect_workdir *)

\* DirectoryState of a CopyDataSpec before any inspection
ZeroDirState ==
    [ directoryExists |-> FALSE,
      directoryIsReady |-> FALSE,
      schemaDumpIsDone |-> FALSE,
      schemaPreDataHasBeenRestored |-> FALSE,
      schemaPostDataHasBeenRestored |-> FALSE,
      tableCopyIsDone |-> FALSE,
      indexCopyIsDone |-> FALSE,
      sequenceCopyIsDone |-> FALSE,
      blobsCopyIsDone |-> FALSE,
      allDone |-> FALSE ]

\* the sub-directories whose presence makes the work directory inspectable
InspectedDirs(cfPaths) ==
    { cfPaths.schemadir, cfPaths.rundir, cfPaths.tbldir, cfPaths.idxdir }

\* allDone, from the phase flags
AllDoneFlagsMissingBlobs(d) ==
    /\ d.schemaDumpIsDone
    /\ d.schemaPreDataHasBeenRestored
    /\ d.schemaPostDataHasBeenRestored
    /\ d.tableCopyIsDone
    /\ d.indexCopyIsDone
    /\ d.sequenceCopyIsDone

AllDoneFlags(d) ==
    /\ d.schemaDumpIsDone
    /\ d.schemaPreDataHasBeenRestored
    /\ d.schemaPostDataHasBeenRestored
    /\ d.tableCopyIsDone
    /\ d.indexCopyIsDone
    /\ d.sequenceCopyIsDone
    /\ d.blobsCopyIsDone

\* the phase flags, from the done markers; the fields the code does not
\* assign keep the value they have in dirState
copydb_inspect_workdir(f, cfPaths, dirState) ==
    IF ~directory_exists(f, cfPaths.topdir)
    THEN [dirState EXCEPT !.directoryExists = FALSE]
    ELSE IF \E d \in InspectedDirs(cfPaths) : ~directory_exists(f, d)
    THEN [dirState EXCEPT !.directoryExists = TRUE,
                          !.directoryIsReady = FALSE]
    ELSE LET flags ==
                 [dirState EXCEPT
                    !.directoryExists = TRUE,
                    !.schemaDumpIsDone =
                        /\ file_exists(f, cfPaths.done.preDataDump)
                        /\ file_exists(f, cfPaths.done.postDataDump),
                    !.schemaPreDataHasBeenRestored =
                        file_exists(f, cfPaths.done.preDataRestore),
                    !.schemaPostDataHasBeenRestored =
                        file_exists(f, cfPaths.done.postDataRestore),
                    !.tableCopyIsDone = file_exists(f, cfPaths.done.tables),
                    !.indexCopyIsDone = file_exists(f, cfPaths.done.indexes),
                    !.sequenceCopyIsDone =
                        file_exists(f, cfPaths.done.sequences),
                    !.blobsCopyIsDone = file_exists(f, cfPaths.done.blobs)]
         IN [flags EXCEPT !.allDone = AllDoneFlags(flags)]

-----------------------------------------------------------------------------
(* copydb_rmdir_or_mkdir and copydb_init_workdir *)

copydb_mkdir_only(f, dir, removeDir) == pg_mkdir_p(f, dir)

copydb_rmdir_always(f, dir, removeDir) == ensure_empty_dir(f, dir)

copydb_rmdir_or_mkdir(f, dir, removeDir) ==
    IF removeDir THEN ensure_empty_dir(f, dir) ELSE pg_mkdir_p(f, dir)

WorkSubDirsWithoutCdc(cfPaths) ==
    << cfPaths.schemadir, cfPaths.rundir, cfPaths.tbldir, cfPaths.idxdir >>

\* the sub-directories copydb_init_workdir makes, in the order of dirs[]
WorkSubDirs(cfPaths) ==
    << cfPaths.schemadir, cfPaths.rundir, cfPaths.tbldir, cfPaths.idxdir,
       cfPaths.cdcdir >>

RECURSIVE MakeSubDirs(_, _, _)
MakeSubDirs(f, dirSeq, removeDir) ==
    IF dirSeq = << >>
    THEN f
    ELSE MakeSubDirs(copydb_rmdir_or_mkdir(f, Head(dirSeq), removeDir),
                     Tail(dirSeq), removeDir)

\* The check for another pgcopydb running: the outcome of read_pidfile when
\* the work directory and the pidfile exist.
PidfileCheckNeverBlocks(f, cfPaths, running) ==
    [ok |-> FALSE, onFilePid |-> NoPid, fs |-> f]

PidfileCheck(f, cfPaths, running) ==
    IF directory_exists(f, cfPaths.topdir) /\ file_exists(f, cfPaths.pidfile)
    THEN read_pidfile(f, cfPaths.pidfile, running)
    ELSE [ok |-> FALSE, onFilePid |-> NoPid, fs |-> f]

\* The decision taken from the inspected state, when restart is not set:
\* "ok" to continue, or the reason of the failure.
InspectionVerdictResumeOptional(dirState, resume) ==
    IF ~dirState.directoryExists THEN "ok"
    ELSE IF ~dirState.schemaDumpIsDone THEN "ok"
    ELSE IF resume THEN "ok"
    ELSE IF dirState.allDone THEN "NothingToDo"
    ELSE "ok"

InspectionVerdictDumpIgnored(dirState, resume) ==
    IF ~dirState.directoryExists THEN "ok"
    ELSE IF resume THEN "ok"
    ELSE IF dirState.allDone THEN "NothingToDo"
    ELSE "NeedsResumeOrRestart"

InspectionVerdict(dirState, resume) ==
    IF ~dirState.directoryExists THEN "ok"
    ELSE IF ~dirState.schemaDumpIsDone THEN "ok"
    ELSE IF resume THEN "ok"
    ELSE IF dirState.allDone THEN "NothingToDo"
    ELSE "NeedsResumeOrRestart"

copydb_init_workdir_pidfile_first(f, running, pid, restart, resume, auxilliary) ==
    LET cfPaths == copydb_prepare_filepaths(auxilliary)
        check == PidfileCheck(f, cfPaths, running)
    IN IF check.ok
       THEN [ok |-> FALSE, outcome |-> "AlreadyRunning", fs |-> f,
             dirState |-> ZeroDirState]
       ELSE
       LET removeDir == restart
           dirState == IF restart
                       THEN ZeroDirState
                       ELSE copydb_inspect_workdir(check.fs, cfPaths,
                                                   ZeroDirState)
           verdict == IF restart THEN "ok"
                      ELSE InspectionVerdict(dirState, resume)
           f1 == create_pidfile(check.fs, cfPaths.pidfile, pid)
       IN IF verdict # "ok"
          THEN [ok |-> FALSE, outcome |-> verdict, fs |-> f1,
                dirState |-> dirState]
          ELSE
          LET f2 == copydb_rmdir_or_mkdir(check.fs, cfPaths.topdir, removeDir)
              f3 == create_pidfile(f2, cfPaths.pidfile, pid)
              f4 == MakeSubDirs(f3, WorkSubDirs(cfPaths), removeDir)
          IN [ok |-> TRUE, outcome |-> "ok", fs |-> f4,
              dirState |-> dirState]

\* copydb_init_workdir, run by process pid while the processes of running
\* are alive: whether it succeeds, why not, the file system it leaves and the
\* DirectoryState it computed.
copydb_init_workdir(f, running, pid, restart, resume, auxilliary) ==
    LET cfPaths == copydb_prepare_filepaths(auxilliary)
        check == PidfileCheck(f, cfPaths, running)
    IN IF check.ok
       THEN [ok |-> FALSE, outcome |-> "AlreadyRunning", fs |-> f,
             dirState |-> ZeroDirState]
       ELSE
       LET removeDir == restart
           dirState == IF restart
                       THEN ZeroDirState
                       ELSE copydb_inspect_workdir(check.fs, cfPaths,
                                                   ZeroDirState)
           verdict == IF restart THEN "ok"
                      ELSE InspectionVerdict(dirState, resume)
       IN IF verdict # "ok"
          THEN [ok |-> FALSE, outcome |-> verdict, fs |-> check.fs,
                dirState |-> dirState]
          ELSE
          LET f2 == copydb_rmdir_or_mkdir(check.fs, cfPaths.topdir, removeDir)
              f3 == create_pidfile(f2, cfPaths.pidfile, pid)
              f4 == MakeSubDirs(f3, WorkSubDirs(cfPaths), removeDir)
          IN [ok |-> TRUE, outcome |-> "ok", fs |-> f4,
              dirState |-> dirState]

-----------------------------------------------------------------------------
(* The table catalog and the per-table paths *)

\* The source tables: one copied as a whole, one split in PartCount parts.
SourceTables ==
    { [oid |-> 16384, partsCount |-> 0],
      [oid |-> 16385, partsCount |-> PartCount] }

\* the partition numbers of a table; a table that is not split is copied
\* with partNumber 0
PartNumbers(t) ==
    IF t.partsCount >= 1 THEN 0 .. (t.partsCount - 1) ELSE {0}

\* A work-item: a table, or one partition of a table.
WorkItems ==
    UNION { { [table |-> t, partNumber |-> n] : n \in PartNumbers(t) } :
            t \in SourceTables }

\* A uint32_t (an oid) is held as the 32-bit signed integer of the same
\* bits: the oids 0 .. 2^31 - 1 are themselves, and the oid 2^31 + m, with
\* m in 0 .. 2^31 - 1, is the negative number m - 2^31.

\* sformat "%d" of an oid or a partition number: the decimal digits of the
\* signed integer the 32 bits are, with a minus sign below zero
FormatD(n) == ToString(n)

\* the five decimal digits of a number below 10^5
Pad5(x) ==
    IF x < 10 THEN "0000" \o ToString(x)
    ELSE IF x < 100 THEN "000" \o ToString(x)
    ELSE IF x < 1000 THEN "00" \o ToString(x)
    ELSE IF x < 10000 THEN "0" \o ToString(x)
    ELSE ToString(x)

\* sformat "%u" of an oid: the decimal digits of the unsigned integer the
\* 32 bits are; above 2^31 - 1 that is 2147483648 + m, added in two halves
\* of five decimal digits
FormatU(n) ==
    IF n >= 0 THEN ToString(n)
    ELSE LET m == (n + 2147483647) + 1
             low == (m % 100000) + 83648
             high == (m \div 100000) + 21474 + (low \div 100000)
         IN ToString(high) \o Pad5(low % 100000)

copydb_init_tablepaths_lock_is_done(cfPaths, oid) ==
    [ lockFile    |-> cfPaths.tbldir \o << FormatD(oid) \o ".done" >>,
      doneFile    |-> cfPaths.tbldir \o << FormatD(oid) \o ".done" >>,
      idxListFile |-> cfPaths.tbldir \o << FormatU(oid) \o ".idx" >> ]

copydb_init_tablepaths(cfPaths, oid) ==
    [ lockFile    |-> cfPaths.rundir \o << FormatD(oid) >>,
      doneFile    |-> cfPaths.tbldir \o << FormatD(oid) \o ".done" >>,
      idxListFile |-> cfPaths.tbldir \o << FormatU(oid) \o ".idx" >> ]

copydb_init_tablepaths_for_part_unnumbered(cfPaths, oid, partNumber) ==
    [ lockFile |-> cfPaths.rundir \o << FormatD(oid) >>,
      doneFile |-> cfPaths.tbldir \o << FormatD(oid) \o ".done" >> ]

copydb_init_tablepaths_for_part(cfPaths, oid, partNumber) ==
    [ lockFile |->
          cfPaths.rundir \o << FormatD(oid) \o "." \o FormatD(partNumber) >>,
      doneFile |->
          cfPaths.tbldir \o
              << FormatD(oid) \o "." \o FormatD(partNumber) \o ".done" >> ]

\* the tablePaths that copydb_init_table_specs computes for a work-item
copydb_init_table_specs(cfPaths, source, partNumber) ==
    IF source.partsCount >= 1
    THEN LET part == copydb_init_tablepaths_for_part(cfPaths, source.oid,
                                                     partNumber)
         IN [ lockFile    |-> part.lockFile,
              doneFile    |-> part.doneFile,
              idxListFile |->
                  cfPaths.tbldir \o << FormatU(source.oid) \o ".idx" >>,
              truncateDoneFile |->
                  cfPaths.tbldir \o << FormatU(source.oid) \o ".truncate" >> ]
    ELSE LET whole == copydb_init_tablepaths(cfPaths, source.oid)
         IN [ lockFile    |-> whole.lockFile,
              doneFile    |-> whole.doneFile,
              idxListFile |-> whole.idxListFile,
              truncateDoneFile |-> << >> ]

TablePaths(item) == copydb_init_table_specs(Paths, item.table, item.partNumber)

-----------------------------------------------------------------------------
(* summary.c: the table summary, written to the lock file and the done file *)

\* the summary of a COPY by process pid; the times are 0 (not set) or 1
CopyTableSummary(pid, oid) ==
    [pid |-> pid, oid |-> oid, startTime |-> 0, doneTime |-> 0]

write_table_summary(f, summary, filename) == write_file(f, filename, summary)

open_table_summary_not_written(f, summary, filename) == f

open_table_summary(f, summary, filename) ==
    write_table_summary(f, [summary EXCEPT !.startTime = 1, !.doneTime = 0],
                        filename)

finish_table_summary(f, summary, filename) ==
    write_table_summary(f, [summary EXCEPT !.doneTime = 1], filename)

-----------------------------------------------------------------------------
(* The table COPY workers *)

Workers == 1 .. TableJobs

\* the pid of worker w of the run of parent p
WorkerPid(p, w) == MaxRuns + (p - 1) * TableJobs + w

NoItem == [table |-> [oid |-> 0, partsCount |-> 0], partNumber |-> 0]

NoWorker == [pc |-> "none", run |-> NoPid, item |-> NoItem]

\* worker w is a running child of parent p
WorkerOf(w, p) ==
    /\ wstate[w].run = p
    /\ wstate[w].pc \in {"idle", "skipped", "locked", "copied"}

SummaryOf(w) ==
    CopyTableSummary(WorkerPid(wstate[w].run, w), wstate[w].item.table.oid)

-----------------------------------------------------------------------------
(* The parent processes *)

Running == { p \in Pids : pstate[p] \in {"calling", "main", "aux"} }

NoCall ==
    [ pid |-> NoPid, restart |-> FALSE, resume |-> FALSE,
      auxilliary |-> FALSE, outcome |-> "none", dirState |-> ZeroDirState,
      before |-> EmptyFs, running |-> {} ]

\* no function has been applied
NoProbe == [fn |-> "none"]

\* the LSN at which the replication slot was created: the first LSN of the
\* stream, and the LSN the origin is created with
StartPos == 1

\* InvalidXLogRecPtr: no LSN
InvalidXLogRecPtr == 0

NoSentinel == [apply |-> FALSE, startpos |-> InvalidXLogRecPtr,
               endpos |-> InvalidXLogRecPtr]

NoStreamContext == [pc |-> "none", firstLSN |-> InvalidXLogRecPtr,
                    lsn |-> InvalidXLogRecPtr, xid |-> 0]

NoTransform == [pc |-> "none", firstLSN |-> InvalidXLogRecPtr]

NoApplyContext ==
    [pc |-> "none", previousLSN |-> InvalidXLogRecPtr,
     endpos |-> InvalidXLogRecPtr, reachedEndPos |-> FALSE,
     sqlFileName |-> InvalidXLogRecPtr, line |-> 0, skip |-> FALSE,
     tx |-> 0, run |-> 0]

\* Number of runs in the study of the snapshot.
SnapRuns == 2

SnapWorkers == 1 .. TableJobs

\* a connection that pgsql_init has prepared: no transaction yet
NoPgsql ==
    [ st |-> "none", begun |-> FALSE, level |-> "",
      readOnly |-> FALSE, deferrable |-> FALSE,
      exported |-> "", imported |-> "", gucs |-> FALSE ]

\* a zeroed TransactionSnapshot
NoSnapshot == [ pgsql |-> NoPgsql, snapshot |-> "", state |-> "UNKNOWN" ]

NoCopySpecs == [ consistent |-> TRUE, sourceSnapshot |-> NoSnapshot ]

NoSnapWorker ==
    [ pc |-> "unborn", tableSpecs |-> [sourceSnapshot |-> NoSnapshot],
      copySpecs |-> NoCopySpecs ]

\* tableSemaphore.initValue, indexSemaphore.initValue
TableSemaphoreInitValueTwo == TableJobs

TableSemaphoreInitValue == 1

\* .vacuumJobs = tableJobs
VacuumJobs == TableJobs

IndexWorkers == 1 .. IndexJobs

VacuumWorkers == 1 .. VacuumJobs

TableOids == { t.oid : t \in SourceTables }

\* a table worker that has not been forked
NoTableWorker == [pc |-> "none", item |-> NoItem]

\* an index or vacuum worker that has not been forked
NoQueueWorker == [pc |-> "none", job |-> 0]

\* a sub-process that has not been forked
NoChild == [st |-> "none", status |-> 0, signalled |-> FALSE]

\* the parent is not in copydb_fatal_exit nor copydb_wait_for_subprocesses
NotWaiting ==
    [fn |-> "none", pc |-> "idle", allReturnCodeAreZero |-> TRUE,
     result |-> FALSE]

NoRace ==
    [pc |-> "none", restart |-> FALSE, resume |-> FALSE, auxilliary |-> FALSE]

Init ==
    /\ fs = EmptyFs
    /\ pstate = [p \in Pids |-> "unborn"]
    /\ call = NoCall
    /\ wstate = [w \in Workers |-> NoWorker]
    /\ sigterm = {}
    /\ acquired = [i \in WorkItems |-> 0]
    /\ committed = {}
    /\ target = [i \in WorkItems |-> 0]
    /\ rstate = [p \in Pids |-> NoRace]
    /\ children = [k \in Kids |-> NoChild]
    /\ wait = NotWaiting
    /\ reaped = {}
    /\ ppc = "start"
    /\ tw = [w \in Workers |-> NoTableWorker]
    /\ sem = TableSemaphoreInitValue
    /\ indexQueue = << >>
    /\ vacuumQueue = << >>
    /\ iw = [x \in IndexWorkers |-> NoQueueWorker]
    /\ vw = [x \in VacuumWorkers |-> NoQueueWorker]
    /\ truncated = [oid \in TableOids |-> 0]
    /\ fanout = [oid \in TableOids |-> 0]
    /\ sent = {}
    /\ copySpecs = NoCopySpecs
    /\ snapshotArg = ""
    /\ snpc = "start"
    /\ snrun = 0
    /\ sw = [w \in SnapWorkers |-> NoSnapWorker]
    /\ imports = {}
    /\ probe = NoProbe
    /\ sentinel = NoSentinel
    /\ jsonFiles = << >>
    /\ sqlFiles = << >>
    /\ transformQueue = << >>
    /\ streamContext = NoStreamContext
    /\ transformWorker = NoTransform
    /\ applyContext = NoApplyContext
    /\ origin = StartPos
    /\ applied = << >>
    /\ skipped = {}

\* A new pgcopydb process starts and runs copydb_init_workdir.
InitWorkdir(restart, resume, auxilliary) ==
    /\ call = NoCall
    /\ \E pid \in Pids :
         /\ pstate[pid] = "unborn"
         /\ \A q \in Pids : q < pid => pstate[q] # "unborn"
         /\ LET r == copydb_init_workdir(fs, Running, pid, restart, resume,
                                         auxilliary)
            IN /\ fs' = r.fs
               /\ pstate' = [pstate EXCEPT ![pid] = "calling"]
               /\ call' = [ pid |-> pid, restart |-> restart,
                            resume |-> resume, auxilliary |-> auxilliary,
                            outcome |-> r.outcome, dirState |-> r.dirState,
                            before |-> fs, running |-> Running ]
    /\ UNCHANGED <<rstate, waitVars, postVars, extVars, workerVars>>

\* copydb_init_workdir returns: the process goes on when it succeeded and
\* exits when it failed.
Return ==
    /\ call # NoCall
    /\ pstate' = [pstate EXCEPT ![call.pid] =
                     IF call.outcome # "ok" THEN "exited"
                     ELSE IF call.auxilliary THEN "aux" ELSE "main"]
    /\ call' = NoCall
    /\ acquired' = IF call.outcome = "ok" /\ ~call.auxilliary
                   THEN [i \in WorkItems |-> 0]
                   ELSE acquired
    /\ committed' = IF call.outcome = "ok" /\ call.restart
                    THEN {}
                    ELSE committed
    /\ target' = IF call.outcome = "ok" /\ call.restart
                 THEN [i \in WorkItems |-> 0]
                 ELSE target
    /\ UNCHANGED <<rstate, waitVars, postVars, extVars, fs, wstate, sigterm>>

\* A process that has no worker left ends; its pidfile stays behind.
Exit(p) ==
    /\ call = NoCall
    /\ pstate[p] \in {"main", "aux"}
    /\ \A w \in Workers : ~WorkerOf(w, p)
    /\ pstate' = [pstate EXCEPT ![p] = "exited"]
    /\ sigterm' = sigterm \ {p}
    /\ UNCHANGED <<rstate, waitVars, postVars, extVars, fs, call, wstate, acquired, committed, target>>

\* The main process completes a phase of its command and writes the
\* top-level done marker of that phase.
WriteDoneFile(p, marker) ==
    /\ call = NoCall
    /\ pstate[p] = "main"
    /\ ~file_exists(fs, marker)
    /\ directory_exists(fs, ParentDir(marker))
    /\ fs' = write_file(fs, marker, 0)
    /\ UNCHANGED <<rstate, waitVars, postVars, extVars, pstate, call, workerVars>>

Next ==
    \/ \E restart, resume, auxilliary \in BOOLEAN :
           InitWorkdir(restart, resume, auxilliary)
    \/ Return
    \/ \E p \in Pids : Exit(p)
    \/ \E p \in Pids, marker \in DoneMarkers : WriteDoneFile(p, marker)

Spec == Init /\ [][Next]_vars

-----------------------------------------------------------------------------
(* The copy of the table data by the main command                          *)

\* The phases of the main command, in the order in which it writes their
\* done markers.
PhaseRank(name) ==
    CASE name = "preDataDump"     -> 1
      [] name = "postDataDump"    -> 2
      [] name = "preDataRestore"  -> 3
      [] name = "tables"          -> 4
      [] name = "indexes"         -> 5
      [] name = "sequences"       -> 6
      [] name = "blobs"           -> 7
      [] name = "postDataRestore" -> 8

\* every table of the catalog has its done file, for each of its partitions
AllTablesDoneButPartitions(f) ==
    \A i \in WorkItems :
        i.table.partsCount = 0 => file_exists(f, TablePaths(i).doneFile)

AllTablesDone(f) == \A i \in WorkItems : file_exists(f, TablePaths(i).doneFile)

\* The main command completes its next phase.
RunPhase(p, name) ==
    /\ p \notin sigterm
    /\ \A other \in DoneNames :
          PhaseRank(other) < PhaseRank(name)
              => file_exists(fs, Paths.done[other])
    /\ name = "tables" =>
          /\ AllTablesDone(fs)
          /\ \A w \in Workers : ~WorkerOf(w, p)
    /\ WriteDoneFile(p, Paths.done[name])

\* copydb_prepare_snapshot stores the snapshot of the run in the snapshot
\* file.
WriteSnapshotFile(p) ==
    /\ call = NoCall
    /\ pstate[p] = "main"
    /\ p \notin sigterm
    /\ ~file_exists(fs, Paths.snfile)
    /\ ~file_exists(fs, Paths.done.preDataDump)
    /\ fs' = write_file(fs, Paths.snfile, p)
    /\ UNCHANGED <<rstate, waitVars, postVars, extVars, pstate, call, workerVars>>

\* The parent forks a table COPY worker, once the pre-data section has been
\* restored and while the table data is not all copied.
Fork(p, w) ==
    /\ call = NoCall
    /\ pstate[p] = "main"
    /\ p \notin sigterm
    /\ file_exists(fs, Paths.done.preDataRestore)
    /\ ~file_exists(fs, Paths.done.tables)
    /\ wstate[w].pc = "none"
    /\ wstate' = [wstate EXCEPT ![w] = [pc |-> "idle", run |-> p,
                                        item |-> NoItem]]
    /\ UNCHANGED <<rstate, waitVars, postVars, extVars, fs, pstate, call, sigterm, acquired, committed, target>>

\* The truncate policy for a partition: under the table semaphore, TRUNCATE
\* the target table and touch <oid>.truncate when that file does not exist.
\* A table that is not split is truncated by its COPY.
TruncateOnce(f, item) ==
    LET truncateDoneFile == TablePaths(item).truncateDoneFile
    IN IF item.table.partsCount >= 1 /\ ~file_exists(f, truncateDoneFile)
       THEN [truncate |-> TRUE, fs |-> write_file(f, truncateDoneFile, 0)]
       ELSE [truncate |-> FALSE, fs |-> f]

\* A worker takes the next work-item: it skips the item when its lock file
\* exists, and otherwise creates the lock file and applies the truncate
\* policy.
TryLock(w, item) ==
    /\ call = NoCall
    /\ wstate[w].pc \in {"idle", "skipped"}
    /\ wstate[w].run \notin sigterm
    /\ LET lockFile == TablePaths(item).lockFile
           pid == WorkerPid(wstate[w].run, w)
           locked == open_table_summary(
                         fs, CopyTableSummary(pid, item.table.oid), lockFile)
       IN IF file_exists(fs, lockFile)
          THEN /\ wstate' = [wstate EXCEPT ![w].pc = "skipped",
                                           ![w].item = item]
               /\ UNCHANGED <<fs, acquired, target>>
          ELSE /\ fs' = TruncateOnce(locked, item).fs
               /\ target' = IF TruncateOnce(locked, item).truncate
                            THEN [i \in WorkItems |->
                                    IF i.table = item.table THEN 0
                                    ELSE target[i]]
                            ELSE target
               /\ wstate' = [wstate EXCEPT ![w].pc = "locked",
                                           ![w].item = item]
               /\ acquired' = [acquired EXCEPT ![item] = @ + 1]
    /\ UNCHANGED <<rstate, waitVars, postVars, extVars, pstate, call, sigterm, committed>>

\* The COPY of the work-item runs to its end and is committed.
Copy(w) ==
    /\ call = NoCall
    /\ wstate[w].pc = "locked"
    /\ wstate' = [wstate EXCEPT ![w].pc = "copied"]
    /\ committed' = committed \cup
           { [item |-> wstate[w].item,
              pid |-> WorkerPid(wstate[w].run, w)] }
    /\ target' = [target EXCEPT ![wstate[w].item] =
                     IF wstate[w].item.table.partsCount >= 1
                     THEN @ + 1
                     ELSE 1]
    /\ UNCHANGED <<rstate, waitVars, postVars, extVars, fs, pstate, call, sigterm, acquired>>

\* The COPY fails: the transaction is rolled back and the worker exits with
\* a non-zero code; its lock file stays.
CopyFail(w) ==
    /\ call = NoCall
    /\ wstate[w].pc = "locked"
    /\ wstate' = [wstate EXCEPT ![w] = NoWorker]
    /\ UNCHANGED <<rstate, waitVars, postVars, extVars, fs, pstate, call, sigterm, acquired, committed, target>>

\* After the commit the worker writes the summary to the done file.
Finish(w) ==
    /\ call = NoCall
    /\ wstate[w].pc = "copied"
    /\ fs' = finish_table_summary(fs, SummaryOf(w),
                                  TablePaths(wstate[w].item).doneFile)
    /\ wstate' = [wstate EXCEPT ![w].pc = "idle", ![w].item = NoItem]
    /\ UNCHANGED <<rstate, waitVars, postVars, extVars, pstate, call, sigterm, acquired, committed, target>>

\* A worker that finds no more work exits with code zero.
WorkerExit(w) ==
    /\ call = NoCall
    /\ wstate[w].pc \in {"idle", "skipped"}
    /\ wstate' = [wstate EXCEPT ![w] = NoWorker]
    /\ UNCHANGED <<rstate, waitVars, postVars, extVars, fs, pstate, call, sigterm, acquired, committed, target>>

\* copydb_fatal_exit, or a SIGTERM from outside: the process group of
\* parent p is signalled.
Terminate(p) ==
    /\ call = NoCall
    /\ pstate[p] = "main"
    /\ p \notin sigterm
    /\ sigterm' = sigterm \cup {p}
    /\ UNCHANGED <<rstate, waitVars, postVars, extVars, fs, pstate, call, wstate, acquired, committed, target>>

\* A signalled worker rolls back, removes the lock file of the work-item it
\* was at, writes no done file and exits with a non-zero code.
Cancel(w) ==
    /\ call = NoCall
    /\ wstate[w].run \in sigterm
    /\ wstate[w].pc \in {"idle", "skipped", "locked", "copied"}
    /\ fs' = IF wstate[w].pc \in {"locked", "copied"}
             THEN unlink_file(fs, TablePaths(wstate[w].item).lockFile)
             ELSE fs
    /\ wstate' = [wstate EXCEPT ![w] = NoWorker]
    /\ UNCHANGED <<rstate, waitVars, postVars, extVars, pstate, call, sigterm, acquired, committed, target>>

\* The parent and its workers all die at once (SIGKILL, power loss):
\* nothing is cleaned up.
Crash(p) ==
    /\ call = NoCall
    /\ pstate[p] = "main"
    /\ pstate' = [pstate EXCEPT ![p] = "exited"]
    /\ wstate' = [w \in Workers |->
                    IF WorkerOf(w, p) THEN NoWorker ELSE wstate[w]]
    /\ sigterm' = sigterm \ {p}
    /\ UNCHANGED <<rstate, waitVars, postVars, extVars, fs, call, acquired, committed, target>>

NextCopy ==
    \/ \E restart, resume \in BOOLEAN :
           /\ pstate[CopyRuns] = "unborn"
           /\ InitWorkdir(restart, resume, FALSE)
    \/ Return
    \/ \E p \in Pids : Exit(p)
    \/ \E p \in Pids, name \in DoneNames : RunPhase(p, name)
    \/ \E p \in Pids : WriteSnapshotFile(p)
    \/ \E p \in Pids, w \in Workers : Fork(p, w)
    \/ \E w \in Workers, item \in WorkItems : TryLock(w, item)
    \/ \E w \in Workers : Copy(w)
    \/ \E w \in Workers : CopyFail(w)
    \/ \E w \in Workers : Finish(w)
    \/ \E w \in Workers : WorkerExit(w)
    \/ \E p \in Pids : Terminate(p)
    \/ \E w \in Workers : Cancel(w)
    \/ \E p \in Pids : Crash(p)

SpecCopy == Init /\ [][NextCopy]_vars

-----------------------------------------------------------------------------
(* copydb_init_workdir run by several processes at once: each process takes *)
(* the steps of the function one file system operation after the other.     *)

RacePaths(p) == copydb_prepare_filepaths(rstate[p].auxilliary)

\* A new pgcopydb process starts and enters copydb_init_workdir.
RaceStart(restart, resume, auxilliary) ==
    \E p \in Pids :
        /\ pstate[p] = "unborn"
        /\ \A q \in Pids : q < p => pstate[q] # "unborn"
        /\ pstate' = [pstate EXCEPT ![p] = "calling"]
        /\ rstate' = [rstate EXCEPT ![p] =
                          [pc |-> "check", restart |-> restart,
                           resume |-> resume, auxilliary |-> auxilliary]]
        /\ UNCHANGED <<fs, call, workerVars, waitVars, postVars, extVars>>

\* The check for another pgcopydb running.
RaceCheck(p) ==
    /\ rstate[p].pc = "check"
    /\ LET check == PidfileCheck(fs, RacePaths(p), Running)
       IN IF check.ok
          THEN /\ rstate' = [rstate EXCEPT ![p].pc = "failed"]
               /\ pstate' = [pstate EXCEPT ![p] = "exited"]
               /\ UNCHANGED fs
          ELSE /\ rstate' = [rstate EXCEPT ![p].pc = "inspect"]
               /\ fs' = check.fs
               /\ UNCHANGED pstate
    /\ UNCHANGED <<call, workerVars, waitVars, postVars, extVars>>

\* The inspection of the work directory and the decision taken from it.
RaceInspect(p) ==
    /\ rstate[p].pc = "inspect"
    /\ LET dirState == copydb_inspect_workdir(fs, RacePaths(p), ZeroDirState)
           verdict == IF rstate[p].restart THEN "ok"
                      ELSE InspectionVerdict(dirState, rstate[p].resume)
       IN IF verdict = "ok"
          THEN /\ rstate' = [rstate EXCEPT ![p].pc = "topdir"]
               /\ UNCHANGED pstate
          ELSE /\ rstate' = [rstate EXCEPT ![p].pc = "failed"]
               /\ pstate' = [pstate EXCEPT ![p] = "exited"]
    /\ UNCHANGED <<fs, call, workerVars, waitVars, postVars, extVars>>

\* copydb_rmdir_or_mkdir of the top directory.
RaceTopdir(p) ==
    /\ rstate[p].pc = "topdir"
    /\ fs' = copydb_rmdir_or_mkdir(fs, RacePaths(p).topdir, rstate[p].restart)
    /\ rstate' = [rstate EXCEPT ![p].pc = "pidfile"]
    /\ UNCHANGED <<pstate, call, workerVars, waitVars, postVars, extVars>>

\* create_pidfile.
RaceCreatePidfile(p) ==
    /\ rstate[p].pc = "pidfile"
    /\ fs' = create_pidfile(fs, RacePaths(p).pidfile, p)
    /\ rstate' = [rstate EXCEPT ![p].pc = "subdirs"]
    /\ UNCHANGED <<pstate, call, workerVars, waitVars, postVars, extVars>>

\* copydb_rmdir_or_mkdir of the sub-directories; the function returns true.
RaceSubdirs(p) ==
    /\ rstate[p].pc = "subdirs"
    /\ fs' = MakeSubDirs(fs, WorkSubDirs(RacePaths(p)), rstate[p].restart)
    /\ rstate' = [rstate EXCEPT ![p].pc = "ok"]
    /\ pstate' = [pstate EXCEPT ![p] =
                     IF rstate[p].auxilliary THEN "aux" ELSE "main"]
    /\ UNCHANGED <<call, workerVars, waitVars, postVars, extVars>>

\* A process that has returned from copydb_init_workdir ends.
RaceExit(p) ==
    /\ rstate[p].pc = "ok"
    /\ pstate[p] \in {"main", "aux"}
    /\ pstate' = [pstate EXCEPT ![p] = "exited"]
    /\ rstate' = [rstate EXCEPT ![p] = NoRace]
    /\ UNCHANGED <<fs, call, workerVars, waitVars, postVars, extVars>>

\* A main process writes the done marker of its next phase.
RacePhase(p, name) ==
    /\ rstate[p].pc = "ok"
    /\ RunPhase(p, name)

NextRace ==
    \/ \E restart, resume, auxilliary \in BOOLEAN :
           RaceStart(restart, resume, auxilliary)
    \/ \E p \in Pids : RaceCheck(p)
    \/ \E p \in Pids : RaceInspect(p)
    \/ \E p \in Pids : RaceTopdir(p)
    \/ \E p \in Pids : RaceCreatePidfile(p)
    \/ \E p \in Pids : RaceSubdirs(p)
    \/ \E p \in Pids : RaceExit(p)
    \/ \E p \in Pids, name \in DoneNames : RacePhase(p, name)

SpecRace == Init /\ [][NextRace]_vars

-----------------------------------------------------------------------------
(* copydb_fatal_exit and copydb_wait_for_subprocesses                      *)

SIGTERM == 15

\* the signals that end a sub-process: SIGKILL, SIGSEGV, SIGTERM
Signals == {9, 11, SIGTERM}

\* The status waitpid stores: the exit code in bits 8..15 for a sub-process
\* that called exit, the signal number in bits 0..6 for one that a signal
\* has terminated.
ExitedStatus(code) == code * 256

SignaledStatus(sig) == sig

WIFEXITED(status) == status % 128 = 0

WEXITSTATUS(status) == (status \div 256) % 256

\* waitpid(-1, &status, WNOHANG) fails with ECHILD: the process has no
\* child left, running or waiting to be reaped
NoMoreChildrenWhenNoneExited(ch) ==
    \A k \in Kids : ch[k].st # "zombie"

NoMoreChildren(ch) ==
    \A k \in Kids : ch[k].st \notin {"running", "zombie"}

\* the default case of the switch: the new value of allReturnCodeAreZero
ReturnCodeSeen(allReturnCodeAreZero, status) ==
    LET returnCode == WEXITSTATUS(status)
    IN IF returnCode = 0 THEN allReturnCodeAreZero ELSE FALSE

\* The parent forks a sub-process while it is at work.
ForkChild(k) ==
    /\ wait.pc = "idle"
    /\ children[k].st = "none"
    /\ children' = [children EXCEPT ![k] =
                       [st |-> "running", status |-> 0, signalled |-> FALSE]]
    /\ UNCHANGED <<wait, reaped, notWaitVars>>

\* A sub-process calls exit.
ChildExit(k, code) ==
    /\ children[k].st = "running"
    /\ children' = [children EXCEPT ![k].st = "zombie",
                                    ![k].status = ExitedStatus(code)]
    /\ UNCHANGED <<wait, reaped, notWaitVars>>

\* A signal other than the SIGTERM of the parent terminates a sub-process.
ChildKilled(k, sig) ==
    /\ children[k].st = "running"
    /\ children' = [children EXCEPT ![k].st = "zombie",
                                    ![k].status = SignaledStatus(sig)]
    /\ UNCHANGED <<wait, reaped, notWaitVars>>

\* A sub-process that has received the SIGTERM of the parent ends: it exits
\* with a non-zero code when it handles the signal, and is terminated by the
\* signal when it does not.
ChildOnSigterm(k) ==
    /\ children[k].st = "running"
    /\ children[k].signalled
    /\ \E status \in {ExitedStatus(c) : c \in 1 .. MaxExitCode}
                         \cup {SignaledStatus(SIGTERM)} :
          children' = [children EXCEPT ![k].st = "zombie",
                                       ![k].status = status]
    /\ UNCHANGED <<wait, reaped, notWaitVars>>

\* copydb_fatal_exit: kill(0, SIGTERM), then copydb_wait_for_subprocesses.
FatalExit ==
    /\ wait.pc = "idle"
    /\ children' = [k \in Kids |->
                      IF children[k].st = "running"
                      THEN [children[k] EXCEPT !.signalled = TRUE]
                      ELSE children[k]]
    /\ wait' = [fn |-> "fatal", pc |-> "loop",
                allReturnCodeAreZero |-> TRUE, result |-> FALSE]
    /\ reaped' = {}
    /\ UNCHANGED notWaitVars

\* copydb_wait_for_subprocesses called by the parent itself.
WaitForSubprocesses ==
    /\ wait.pc = "idle"
    /\ wait' = [fn |-> "wait", pc |-> "loop",
                allReturnCodeAreZero |-> TRUE, result |-> FALSE]
    /\ reaped' = {}
    /\ UNCHANGED <<children, notWaitVars>>

\* waitpid returns the pid of a sub-process that has ended.
WaitpidReap(k) ==
    /\ wait.pc \in {"loop", "slept"}
    /\ children[k].st = "zombie"
    /\ children' = [children EXCEPT ![k].st = "reaped"]
    /\ wait' = [wait EXCEPT
                  !.pc = "loop",
                  !.allReturnCodeAreZero =
                      ReturnCodeSeen(wait.allReturnCodeAreZero,
                                     children[k].status)]
    /\ reaped' = reaped \cup {[kid |-> k, status |-> children[k].status]}
    /\ UNCHANGED notWaitVars

\* waitpid returns 0, or -1 with an error other than ECHILD: the parent
\* sleeps 100 ms and asks again.
WaitpidSleep ==
    /\ wait.pc = "loop"
    /\ wait' = [wait EXCEPT !.pc = "slept"]
    /\ UNCHANGED <<children, reaped, notWaitVars>>

\* waitpid fails with ECHILD: the function returns allReturnCodeAreZero.
WaitpidNoChild ==
    /\ wait.pc \in {"loop", "slept"}
    /\ NoMoreChildren(children)
    /\ wait' = [wait EXCEPT !.pc = "returned",
                            !.result = wait.allReturnCodeAreZero]
    /\ UNCHANGED <<children, reaped, notWaitVars>>

\* The caller goes on after the return; the reaped sub-processes are gone.
WaitReturned ==
    /\ wait.pc = "returned"
    /\ wait' = NotWaiting
    /\ children' = [k \in Kids |->
                      IF children[k].st = "reaped" THEN NoChild
                      ELSE children[k]]
    /\ reaped' = {}
    /\ UNCHANGED notWaitVars

NextWait ==
    \/ \E k \in Kids : ForkChild(k)
    \/ \E k \in Kids, code \in 0 .. MaxExitCode : ChildExit(k, code)
    \/ \E k \in Kids, sig \in Signals : ChildKilled(k, sig)
    \/ \E k \in Kids : ChildOnSigterm(k)
    \/ FatalExit
    \/ WaitForSubprocesses
    \/ \E k \in Kids : WaitpidReap(k)
    \/ WaitpidSleep
    \/ WaitpidNoChild
    \/ WaitReturned

\* The parent keeps calling waitpid, and a sub-process that has received
\* SIGTERM ends.
SpecWait ==
    /\ Init
    /\ [][NextWait]_vars
    /\ \A k \in Kids : WF_vars(ChildOnSigterm(k))
    /\ \A k \in Kids : WF_vars(WaitpidReap(k))
    /\ WF_vars(WaitpidNoChild)

-----------------------------------------------------------------------------
(* The copy of a table split in partitions, and the work that follows the  *)
(* copy of a table: its indexes, its constraints, its vacuum               *)

\* The indexes of the catalog: one on the table that is not split, and one
\* that backs a constraint on the table that is split.
SourceIndexes ==
    { [indexOid |-> 16390, tableOid |-> 16384, constraintOid |-> 0],
      [indexOid |-> 16391, tableOid |-> 16385, constraintOid |-> 16392] }

IndexesOf(oid) == { ix \in SourceIndexes : ix.tableOid = oid }

IndexByOid(oid) == CHOOSE ix \in SourceIndexes : ix.indexOid = oid

\* the done files of an index and of the constraint it backs
IndexPaths(cfPaths, index) ==
    [ doneFile |-> cfPaths.idxdir \o << FormatU(index.indexOid) \o ".done" >>,
      constraintDoneFile |->
          cfPaths.idxdir \o << FormatU(index.constraintOid) \o ".done" >> ]

\* the summary of an index built by process pid
CopyIndexSummary(pid, index) ==
    [pid |-> pid, index |-> index, startTime |-> 1, doneTime |-> 0]

\* the file holds the oid of the constraint, or the oid of the index
write_index_summary(f, summary, filename, constraint) ==
    write_file(f, filename,
               [pid |-> summary.pid,
                oid |-> IF constraint THEN summary.index.constraintOid
                        ELSE summary.index.indexOid,
                doneTime |-> summary.doneTime])

finish_index_summary_of_constraint_only(f, summary, filename, constraint) ==
    IF constraint
    THEN write_index_summary(f, [summary EXCEPT !.doneTime = 1], filename,
                             constraint)
    ELSE f

finish_index_summary(f, summary, filename, constraint) ==
    write_index_summary(f, [summary EXCEPT !.doneTime = 1], filename,
                        constraint)

\* the messages of the queues
JobMessage(oid) == [type |-> "job", oid |-> oid]

StopMessage == [type |-> "stop", oid |-> 0]

RECURSIVE Repeat(_, _)
Repeat(msg, n) == IF n = 0 THEN << >> ELSE <<msg>> \o Repeat(msg, n - 1)

RECURSIVE SeqOfSet(_)
SeqOfSet(S) ==
    IF S = {} THEN << >>
    ELSE LET x == CHOOSE y \in S : \A z \in S : y.indexOid <= z.indexOid
         IN <<JobMessage(x.indexOid)>> \o SeqOfSet(S \ {x})

\* the history of the jobs enqueued, with one more of (queue, oid)
Enqueued(history, queue, oid) ==
    LET old == { e \in history : e.queue = queue /\ e.oid = oid }
        n == IF old = {} THEN 0 ELSE (CHOOSE e \in old : TRUE).n
    IN (history \ old) \cup {[queue |-> queue, oid |-> oid, n |-> n + 1]}

RECURSIVE EnqueuedAll(_, _, _)
EnqueuedAll(history, queue, oids) ==
    IF oids = {} THEN history
    ELSE LET oid == CHOOSE o \in oids : TRUE
         IN EnqueuedAll(Enqueued(history, queue, oid), queue, oids \ {oid})

\* the messages that close a queue read by the given number of workers
QueueStopMessagesOne(jobs) == <<StopMessage>>

QueueStopMessages(jobs) == Repeat(StopMessage, jobs)

\* the index-list file of a table: the oid of each index and of its
\* constraint
create_table_index_file(f, oid, filename) ==
    write_file(f, filename,
               { <<ix.indexOid, ix.constraintOid>> : ix \in IndexesOf(oid) })

\* every partition of the table has its done file
AllPartsDoneButLast(f, table) ==
    \E n \in PartNumbers(table) :
        file_exists(f, TablePaths([table |-> table, partNumber |-> n]).doneFile)

AllPartsDone(f, table) ==
    \A n \in PartNumbers(table) :
        file_exists(f, TablePaths([table |-> table, partNumber |-> n]).doneFile)

\* copydb_init_workdir in a work directory that does not exist; then the
\* schema is dumped and its pre-data section restored, and the parent forks
\* the table, index and vacuum workers.
PostStart ==
    /\ ppc = "start"
    /\ LET r == copydb_init_workdir(fs, {}, 1, FALSE, FALSE, FALSE)
           f1 == write_file(r.fs, Paths.done.preDataDump, 0)
           f2 == write_file(f1, Paths.done.postDataDump, 0)
       IN fs' = write_file(f2, Paths.done.preDataRestore, 0)
    /\ ppc' = "copy"
    /\ tw' = [w \in Workers |-> [pc |-> "idle", item |-> NoItem]]
    /\ iw' = [x \in IndexWorkers |-> [pc |-> "waiting", job |-> 0]]
    /\ vw' = [x \in VacuumWorkers |-> [pc |-> "waiting", job |-> 0]]
    /\ UNCHANGED <<sem, indexQueue, vacuumQueue, truncated, fanout, sent,
                   notPostVars>>

\* A table worker takes a work-item: it leaves the item when its lock file
\* exists, and creates the lock file otherwise.
TableLock(w, item) ==
    /\ tw[w].pc = "idle"
    /\ LET lockFile == TablePaths(item).lockFile
       IN IF file_exists(fs, lockFile)
          THEN UNCHANGED <<fs, tw>>
          ELSE /\ fs' = open_table_summary(
                            fs, CopyTableSummary(WorkerPid(1, w),
                                                 item.table.oid), lockFile)
               /\ tw' = [tw EXCEPT ![w] =
                           [pc |-> IF item.table.partsCount >= 1
                                   THEN "truncate" ELSE "copy",
                            item |-> item]]
    /\ UNCHANGED <<ppc, sem, indexQueue, vacuumQueue, iw, vw, truncated,
                   fanout, sent, notPostVars>>

\* semaphore_lock of the table semaphore, before the truncate of a
\* partitioned table and before the test that follows the done file.
TableSemaphoreLock(w) ==
    /\ tw[w].pc \in {"truncate", "fanout"}
    /\ sem > 0
    /\ sem' = sem - 1
    /\ tw' = [tw EXCEPT ![w].pc = IF tw[w].pc = "truncate"
                                  THEN "truncateTest" ELSE "fanoutTest"]
    /\ UNCHANGED <<fs, ppc, indexQueue, vacuumQueue, iw, vw, truncated,
                   fanout, sent, notPostVars>>

\* In the critical section: when <oid>.truncate does not exist the worker
\* runs TRUNCATE on the target table; when it exists the worker leaves the
\* critical section.
TableTruncate(w) ==
    /\ tw[w].pc = "truncateTest"
    /\ IF file_exists(fs, TablePaths(tw[w].item).truncateDoneFile)
       THEN /\ sem' = sem + 1
            /\ tw' = [tw EXCEPT ![w].pc = "copy"]
            /\ UNCHANGED truncated
       ELSE /\ truncated' = [truncated EXCEPT ![tw[w].item.table.oid] = @ + 1]
            /\ tw' = [tw EXCEPT ![w].pc = "truncateTouch"]
            /\ UNCHANGED sem
    /\ UNCHANGED <<fs, ppc, indexQueue, vacuumQueue, iw, vw, fanout, sent,
                   notPostVars>>

\* After TRUNCATE the worker touches <oid>.truncate and leaves the critical
\* section.
TableTruncateDone(w) ==
    /\ tw[w].pc = "truncateTouch"
    /\ fs' = write_file(fs, TablePaths(tw[w].item).truncateDoneFile, 0)
    /\ sem' = sem + 1
    /\ tw' = [tw EXCEPT ![w].pc = "copy"]
    /\ UNCHANGED <<ppc, indexQueue, vacuumQueue, iw, vw, truncated, fanout,
                   sent, notPostVars>>

\* The COPY of the work-item, committed, and its summary in the done file.
TableCopy(w) ==
    /\ tw[w].pc = "copy"
    /\ fs' = finish_table_summary(
                 fs, CopyTableSummary(WorkerPid(1, w), tw[w].item.table.oid),
                 TablePaths(tw[w].item).doneFile)
    /\ tw' = [tw EXCEPT ![w].pc = "fanout"]
    /\ UNCHANGED <<ppc, sem, indexQueue, vacuumQueue, iw, vw, truncated,
                   fanout, sent, notPostVars>>

\* In the critical section: when every partition of the table has its done
\* file the worker writes the index-list file, and enqueues the index jobs
\* and the vacuum job of the table.
TableFanout(w) ==
    /\ tw[w].pc = "fanoutTest"
    /\ LET table == tw[w].item.table
           oid == table.oid
       IN IF AllPartsDone(fs, table)
          THEN /\ fs' = create_table_index_file(
                            fs, oid, TablePaths(tw[w].item).idxListFile)
               /\ indexQueue' = indexQueue \o SeqOfSet(IndexesOf(oid))
               /\ vacuumQueue' = Append(vacuumQueue, JobMessage(oid))
               /\ fanout' = [fanout EXCEPT ![oid] = @ + 1]
               /\ sent' = Enqueued(
                              EnqueuedAll(sent, "index",
                                  { ix.indexOid : ix \in IndexesOf(oid) }),
                              "vacuum", oid)
          ELSE UNCHANGED <<fs, indexQueue, vacuumQueue, fanout, sent>>
    /\ sem' = sem + 1
    /\ tw' = [tw EXCEPT ![w] = [pc |-> "idle", item |-> NoItem]]
    /\ UNCHANGED <<ppc, iw, vw, truncated, notPostVars>>

\* A table worker exits with code zero when no work-item is left to take.
TableWorkerExit(w) ==
    /\ tw[w].pc = "idle"
    /\ \A i \in WorkItems : file_exists(fs, TablePaths(i).lockFile)
    /\ tw' = [tw EXCEPT ![w].pc = "exited"]
    /\ UNCHANGED <<fs, ppc, sem, indexQueue, vacuumQueue, iw, vw, truncated,
                   fanout, sent, notPostVars>>

\* An index worker receives the next message of the index queue: a job, or
\* the message that closes the queue, on which it exits with code zero.
IndexReceive(x) ==
    /\ iw[x].pc = "waiting"
    /\ indexQueue # << >>
    /\ indexQueue' = Tail(indexQueue)
    /\ iw' = [iw EXCEPT ![x] =
                 IF Head(indexQueue).type = "stop"
                 THEN [pc |-> "exited", job |-> 0]
                 ELSE [pc |-> "index", job |-> Head(indexQueue).oid]]
    /\ UNCHANGED <<fs, ppc, tw, sem, vacuumQueue, vw, truncated, fanout,
                   sent, notPostVars>>

\* CREATE INDEX, then the done file of the index.
IndexBuild(x) ==
    /\ iw[x].pc = "index"
    /\ LET index == IndexByOid(iw[x].job)
       IN /\ fs' = finish_index_summary(
                       fs, CopyIndexSummary(MaxRuns + TableJobs + x, index),
                       IndexPaths(Paths, index).doneFile, FALSE)
          /\ iw' = [iw EXCEPT ![x] =
                       IF index.constraintOid # 0
                       THEN [pc |-> "constraint", job |-> iw[x].job]
                       ELSE [pc |-> "waiting", job |-> 0]]
    /\ UNCHANGED <<ppc, tw, sem, indexQueue, vacuumQueue, vw, truncated,
                   fanout, sent, notPostVars>>

\* ALTER TABLE ... ADD CONSTRAINT ... USING INDEX, then the done file of the
\* constraint.
IndexConstraint(x) ==
    /\ iw[x].pc = "constraint"
    /\ LET index == IndexByOid(iw[x].job)
       IN fs' = finish_index_summary(
                    fs, CopyIndexSummary(MaxRuns + TableJobs + x, index),
                    IndexPaths(Paths, index).constraintDoneFile, TRUE)
    /\ iw' = [iw EXCEPT ![x] = [pc |-> "waiting", job |-> 0]]
    /\ UNCHANGED <<ppc, tw, sem, indexQueue, vacuumQueue, vw, truncated,
                   fanout, sent, notPostVars>>

\* A vacuum worker receives the next message of the vacuum queue.
VacuumReceive(x) ==
    /\ vw[x].pc = "waiting"
    /\ vacuumQueue # << >>
    /\ vacuumQueue' = Tail(vacuumQueue)
    /\ vw' = [vw EXCEPT ![x] =
                 IF Head(vacuumQueue).type = "stop"
                 THEN [pc |-> "exited", job |-> 0]
                 ELSE [pc |-> "vacuum", job |-> Head(vacuumQueue).oid]]
    /\ UNCHANGED <<fs, ppc, tw, sem, indexQueue, iw, truncated, fanout, sent,
                   notPostVars>>

\* VACUUM ANALYZE of the table.
VacuumRun(x) ==
    /\ vw[x].pc = "vacuum"
    /\ vw' = [vw EXCEPT ![x] = [pc |-> "waiting", job |-> 0]]
    /\ UNCHANGED <<fs, ppc, tw, sem, indexQueue, vacuumQueue, iw, truncated,
                   fanout, sent, notPostVars>>

\* The table workers have all exited: the parent writes run/tables.done and
\* closes the two queues, with one message for each worker of the queue.
PostTablesDone ==
    /\ ppc = "copy"
    /\ \A w \in Workers : tw[w].pc = "exited"
    /\ fs' = write_file(fs, Paths.done.tables, 0)
    /\ indexQueue' = indexQueue \o QueueStopMessages(IndexJobs)
    /\ vacuumQueue' = vacuumQueue \o QueueStopMessages(VacuumJobs)
    /\ ppc' = "indexes"
    /\ UNCHANGED <<tw, sem, iw, vw, truncated, fanout, sent, notPostVars>>

\* The index workers have all exited: the parent writes run/indexes.done.
PostIndexesDone ==
    /\ ppc = "indexes"
    /\ \A x \in IndexWorkers : iw[x].pc = "exited"
    /\ fs' = write_file(fs, Paths.done.indexes, 0)
    /\ ppc' = "wait"
    /\ UNCHANGED <<tw, sem, indexQueue, vacuumQueue, iw, vw, truncated,
                   fanout, sent, notPostVars>>

\* The sequences are reset and the large objects copied, each by its own
\* process, while the indexes are built.
PostOtherDone(name) ==
    /\ ppc \in {"indexes", "wait"}
    /\ name \in {"sequences", "blobs"}
    /\ ~file_exists(fs, Paths.done[name])
    /\ fs' = write_file(fs, Paths.done[name], 0)
    /\ UNCHANGED <<ppc, tw, sem, indexQueue, vacuumQueue, iw, vw, truncated,
                   fanout, sent, notPostVars>>

\* The parent has collected its sub-processes: it starts the restore of the
\* post-data section.
PostDataRestoreStartEarly ==
    /\ ppc = "wait"
    /\ ppc' = "postDataRestore"
    /\ UNCHANGED <<fs, tw, sem, indexQueue, vacuumQueue, iw, vw, truncated,
                   fanout, sent, notPostVars>>

PostDataRestoreStart ==
    /\ ppc = "wait"
    /\ \A x \in VacuumWorkers : vw[x].pc = "exited"
    /\ file_exists(fs, Paths.done.sequences)
    /\ file_exists(fs, Paths.done.blobs)
    /\ ppc' = "postDataRestore"
    /\ UNCHANGED <<fs, tw, sem, indexQueue, vacuumQueue, iw, vw, truncated,
                   fanout, sent, notPostVars>>

\* The post-data section is restored.
PostDataRestoreDone ==
    /\ ppc = "postDataRestore"
    /\ fs' = write_file(fs, Paths.done.postDataRestore, 0)
    /\ ppc' = "done"
    /\ UNCHANGED <<tw, sem, indexQueue, vacuumQueue, iw, vw, truncated,
                   fanout, sent, notPostVars>>

NextPost ==
    \/ PostStart
    \/ \E w \in Workers, item \in WorkItems : TableLock(w, item)
    \/ \E w \in Workers : TableSemaphoreLock(w)
    \/ \E w \in Workers : TableTruncate(w)
    \/ \E w \in Workers : TableTruncateDone(w)
    \/ \E w \in Workers : TableCopy(w)
    \/ \E w \in Workers : TableFanout(w)
    \/ \E w \in Workers : TableWorkerExit(w)
    \/ \E x \in IndexWorkers : IndexReceive(x)
    \/ \E x \in IndexWorkers : IndexBuild(x)
    \/ \E x \in IndexWorkers : IndexConstraint(x)
    \/ \E x \in VacuumWorkers : VacuumReceive(x)
    \/ \E x \in VacuumWorkers : VacuumRun(x)
    \/ PostTablesDone
    \/ PostIndexesDone
    \/ \E name \in {"sequences", "blobs"} : PostOtherDone(name)
    \/ PostDataRestoreStart
    \/ PostDataRestoreDone

\* Every index worker and every vacuum worker that can take a step
\* eventually takes one.
SpecPost ==
    /\ Init
    /\ [][NextPost]_vars
    /\ \A x \in IndexWorkers :
          WF_vars(IndexReceive(x) \/ IndexBuild(x) \/ IndexConstraint(x))
    /\ \A x \in VacuumWorkers : WF_vars(VacuumReceive(x) \/ VacuumRun(x))

-----------------------------------------------------------------------------
(* The call of copydb_init_workdir that is about to return: what it found  *)
(* (call.before, call.running) and what it leaves (fs).                    *)

CallPending == call # NoCall

CallPaths == copydb_prepare_filepaths(call.auxilliary)

\* the work directory existed and its pidfile named a running process
LivePidfileBefore ==
    /\ directory_exists(call.before, CallPaths.topdir)
    /\ file_exists(call.before, CallPaths.pidfile)
    /\ call.before.files[CallPaths.pidfile] \in call.running

DirectoryExistedBefore == directory_exists(call.before, Paths.topdir)

DumpDoneBefore ==
    /\ file_exists(call.before, Paths.done.preDataDump)
    /\ file_exists(call.before, Paths.done.postDataDump)

AllMarkersBefore == DoneMarkers \subseteq DOMAIN call.before.files

Failed == call.outcome \in {"AlreadyRunning", "NothingToDo",
                            "NeedsResumeOrRestart"}

\* every directory is still there, and every file other than the pidfile of
\* the caller is still there with the contents it had
NothingRemoved ==
    /\ call.before.dirs \subseteq fs.dirs
    /\ \A p \in DOMAIN call.before.files :
          p # CallPaths.pidfile =>
             /\ file_exists(fs, p)
             /\ fs.files[p] = call.before.files[p]

-----------------------------------------------------------------------------
(* Claims about copydb_init_workdir and copydb_inspect_workdir *)

\* C2: when the work directory exists and its pidfile names a running
\* process, copydb_init_workdir fails as already running, whatever the
\* values of restart and resume.
C2_LivePidfileFails ==
    (CallPending /\ LivePidfileBefore) => call.outcome = "AlreadyRunning"

C2_Witness ==
    /\ CallPending
    /\ LivePidfileBefore
    /\ call.restart
    /\ call.outcome = "AlreadyRunning"

\* C4 (as claimed): whenever the inspection reports allDone and restart is
\* not set, copydb_init_workdir fails with NothingToDo, with resume set as
\* well as without.
C4_AllDoneFails ==
    (CallPending /\ call.dirState.allDone /\ ~call.restart)
        => call.outcome = "NothingToDo"

C7_Case ==
    /\ CallPending
    /\ ~call.restart
    /\ ~call.resume
    /\ ~(DirectoryExistedBefore /\ DumpDoneBefore)

\* C7 (as claimed): in that case copydb_init_workdir succeeds and removes
\* nothing, whichever other done markers are present.
C7_FreshOrNoDumpSucceeds ==
    C7_Case => (call.outcome = "ok" /\ NothingRemoved)

\* C7 (amended): in that case, and when the pidfile does not name a running
\* process, copydb_init_workdir succeeds and removes nothing, whichever
\* other done markers are present.
C7_FreshOrNoDumpSucceedsUnlessRunning ==
    (C7_Case /\ ~LivePidfileBefore) => (call.outcome = "ok" /\ NothingRemoved)

C7_Witness ==
    /\ C7_Case
    /\ ~LivePidfileBefore
    /\ file_exists(call.before, Paths.done.preDataDump)
    /\ file_exists(call.before, Paths.done.tables)
    /\ file_exists(call.before, Paths.done.postDataRestore)
    /\ call.outcome = "ok"

\* C8: copydb_inspect_workdir reports allDone exactly when all eight
\* top-level done markers exist, for the directory a call inspected and
\* for every state the work directory can be in.
C8_AllDoneIffAllMarkers ==
    /\ copydb_inspect_workdir(fs, Paths, ZeroDirState).allDone
          <=> (DoneMarkers \subseteq DOMAIN fs.files)
    /\ (CallPending /\ ~call.restart /\ call.outcome # "AlreadyRunning")
          => (call.dirState.allDone <=> AllMarkersBefore)

C8_Witness ==
    /\ CallPending
    /\ ~call.restart
    /\ AllMarkersBefore
    /\ call.dirState.allDone

-----------------------------------------------------------------------------
(* Claims about restart and resume, with the files of the table copy *)

LockFiles == { TablePaths(i).lockFile : i \in WorkItems }

TableDoneFiles == { TablePaths(i).doneFile : i \in WorkItems }

\* the work directory holds the pidfile of the caller and the empty
\* sub-directories, and nothing else
FreshWorkdir ==
    /\ DOMAIN fs.files = {CallPaths.pidfile}
    /\ fs.files[CallPaths.pidfile] = call.pid
    /\ fs.dirs = { Paths.topdir, Paths.schemadir, Paths.rundir, Paths.tbldir,
                   Paths.idxdir, Paths.cdcdir }

\* C3: with restart set and no pidfile of a running process,
\* copydb_init_workdir succeeds whatever the ledger and whatever resume, and
\* leaves no done marker, lock file or snapshot file: only the new pidfile
\* and empty sub-directories.
C3_RestartEmptiesWorkdir ==
    (CallPending /\ call.restart /\ ~LivePidfileBefore)
        => (call.outcome = "ok" /\ FreshWorkdir)

C3_Witness ==
    /\ CallPending
    /\ call.restart
    /\ call.resume
    /\ file_exists(call.before, Paths.snfile)
    /\ file_exists(call.before, Paths.done.preDataRestore)
    /\ \E i \in WorkItems :
          /\ file_exists(call.before, TablePaths(i).doneFile)
          /\ file_exists(call.before, TablePaths(i).lockFile)
    /\ call.outcome = "ok"
    /\ FreshWorkdir

\* the case of C6: resume without restart on a partially completed work
\* directory
C6_Case ==
    /\ CallPending
    /\ call.resume
    /\ ~call.restart
    /\ DirectoryExistedBefore
    /\ DumpDoneBefore
    /\ ~AllMarkersBefore

\* C6 (as claimed): in that case copydb_init_workdir succeeds, and every
\* done marker and lock file is still there, unchanged.
C6_ResumeKeepsLedger ==
    C6_Case => (call.outcome = "ok" /\ NothingRemoved)

\* C6 (amended): in that case, and when the pidfile does not name a running
\* process, copydb_init_workdir succeeds, and every done marker and lock
\* file is still there, unchanged.
C6_ResumeKeepsLedgerUnlessRunning ==
    (C6_Case /\ ~LivePidfileBefore) => (call.outcome = "ok" /\ NothingRemoved)

C6_Witness ==
    /\ C6_Case
    /\ ~LivePidfileBefore
    /\ \E i, j \in WorkItems :
          /\ file_exists(call.before, TablePaths(i).doneFile)
          /\ file_exists(call.before, TablePaths(j).lockFile)
          /\ ~file_exists(call.before, TablePaths(j).doneFile)
    /\ call.outcome = "ok"

-----------------------------------------------------------------------------
(* Claims about the lock files and the done files of the work-items *)

\* C9: in every state, also after a worker has failed or has been cancelled,
\* the done file of a work-item exists only if the process that wrote it
\* has committed the COPY of that work-item.
C9_DoneOnlyAfterCommit ==
    \A i \in WorkItems :
        file_exists(fs, TablePaths(i).doneFile) =>
            /\ [item |-> i, pid |-> fs.files[TablePaths(i).doneFile].pid]
                   \in committed
            /\ fs.files[TablePaths(i).doneFile].doneTime # 0

\* a worker has been cancelled after its COPY (no lock file, no done file),
\* another work-item has its done file
C9_Witness ==
    /\ \E c \in committed :
          /\ ~file_exists(fs, TablePaths(c.item).doneFile)
          /\ ~file_exists(fs, TablePaths(c.item).lockFile)
    /\ \E i \in WorkItems : file_exists(fs, TablePaths(i).doneFile)

\* C10: within a run the lock file of a work-item is taken at most once, and
\* no two workers are ever at the COPY of the same work-item.
C10_OneCopierPerItem ==
    /\ \A i \in WorkItems : acquired[i] <= 1
    /\ \A v, w \in Workers :
          ( /\ v # w
            /\ wstate[v].pc \in {"locked", "copied"}
            /\ wstate[w].pc \in {"locked", "copied"} )
          => wstate[v].item # wstate[w].item

\* a worker holds a lock file while another worker of the run has skipped a
\* work-item whose lock file it found
C10_Witness ==
    \E v, w \in Workers :
        /\ wstate[v].run = wstate[w].run
        /\ wstate[v].pc = "locked"
        /\ wstate[w].pc = "skipped"
        /\ \A i \in WorkItems : acquired[i] = 1

-----------------------------------------------------------------------------
(* Claim about concurrent calls of copydb_init_workdir *)

\* process p has returned success from copydb_init_workdir as a
\* non-auxiliary process and is alive
OwnsWorkdir(p) ==
    /\ rstate[p].pc = "ok"
    /\ ~rstate[p].auxilliary
    /\ pstate[p] = "main"

\* C1 (as claimed): whatever the interleaving of non-auxiliary processes
\* running copydb_init_workdir on the same work directory, no two of them
\* have returned success and are alive at the same time.
C1_SingleOwner ==
    \A p, q \in Pids : (OwnsWorkdir(p) /\ OwnsWorkdir(q)) => p = q

-----------------------------------------------------------------------------
(* Claims about copydb_wait_for_subprocesses and copydb_fatal_exit *)

\* C19 (as claimed): copydb_wait_for_subprocesses returns true only when
\* every sub-process it has reaped exited normally with code zero; one that
\* exited with another code or that a signal has terminated makes it return
\* false.
C19_TrueOnlyIfAllExitedZero ==
    (wait.pc = "returned" /\ wait.result)
        => \A r \in reaped : WIFEXITED(r.status) /\ WEXITSTATUS(r.status) = 0

\* copydb_fatal_exit has returned
FatalExitReturned == wait.fn = "fatal" /\ wait.pc = "returned"

\* C20: copydb_fatal_exit sends SIGTERM to every running sub-process and
\* does not return while a sub-process is running or has not been reaped;
\* when every sub-process ends after it has received SIGTERM, the function
\* eventually returns.
C20_FatalExitJoinsChildren ==
    /\ [](wait.fn = "fatal" =>
            \A k \in Kids : children[k].st = "running"
                                => children[k].signalled)
    /\ [](FatalExitReturned =>
            \A k \in Kids : children[k].st \notin {"running", "zombie"})
    /\ (wait.fn = "fatal") ~> FatalExitReturned

\* copydb_fatal_exit has returned after it has reaped two sub-processes
\* that were running when it sent SIGTERM
C20_Witness ==
    /\ FatalExitReturned
    /\ Cardinality(reaped) = 2
    /\ \A k \in Kids : children[k].st = "reaped" /\ children[k].signalled

-----------------------------------------------------------------------------
(* Claims about run/tables.done *)

EveryItemHasDoneFile ==
    \A t \in SourceTables : \A n \in PartNumbers(t) :
        file_exists(fs, TablePaths([table |-> t, partNumber |-> n]).doneFile)

\* C15 (as claimed): in every state run/tables.done exists if and only if
\* every table of the catalog has a done file for each of its partitions.
C15_TablesDoneIffEveryDoneFile ==
    file_exists(fs, Paths.done.tables) <=> EveryItemHasDoneFile

\* C15 (amended): in every state, if run/tables.done exists then every
\* table of the catalog has a done file for each of its partitions; a run
\* that has completed has all these done files and run/tables.done.
C15_TablesDoneOnlyIfEveryDoneFile ==
    /\ file_exists(fs, Paths.done.tables) => EveryItemHasDoneFile
    /\ file_exists(fs, Paths.done.postDataRestore) =>
          (EveryItemHasDoneFile /\ file_exists(fs, Paths.done.tables))

\* a run has completed: the post-data section is restored, with a main
\* process still there
C15_Witness ==
    /\ file_exists(fs, Paths.done.postDataRestore)
    /\ file_exists(fs, Paths.done.tables)
    /\ EveryItemHasDoneFile
    /\ \E p \in Pids : pstate[p] = "main"

-----------------------------------------------------------------------------
(* Claim about a run interrupted and then resumed *)

\* the parent of the worker that has the pid
ParentOfWorker(pid) == ((pid - MaxRuns - 1) \div TableJobs) + 1

\* an ended run has left the work-item with a lock file and no done file
LeftWithOnlyLock(i) ==
    /\ file_exists(fs, TablePaths(i).lockFile)
    /\ ~file_exists(fs, TablePaths(i).doneFile)
    /\ pstate[ParentOfWorker(fs.files[TablePaths(i).lockFile].pid)] = "exited"

\* C14 (as claimed): when a run is interrupted at any point and a second
\* run resumes it, the rows of no work-item are copied twice, a work-item
\* that the interrupted run left with only a lock file is copied by the
\* second run and not skipped, and once the table data is complete the rows
\* of every work-item are in the target exactly once.
C14_ResumeCopiesEachItemOnce ==
    /\ \A i \in WorkItems : target[i] <= 1
    /\ \A w \in Workers :
          wstate[w].pc = "skipped" => ~LeftWithOnlyLock(wstate[w].item)
    /\ file_exists(fs, Paths.done.tables) =>
          \A i \in WorkItems : target[i] = 1

-----------------------------------------------------------------------------
(* Claims about the partitions of a table and the work after its copy *)

PartitionedTables == { t \in SourceTables : t.partsCount >= 2 }

\* a worker is at the COPY of a partition of the table, or has done it
PartitionCopyStarted(t) ==
    \/ \E w \in Workers :
          tw[w].item.table = t /\ tw[w].pc \in {"copy", "fanout", "fanoutTest"}
    \/ \E n \in PartNumbers(t) :
          file_exists(fs, TablePaths([table |-> t, partNumber |-> n]).doneFile)

\* C11: for a table split in two partitions or more, whatever the
\* interleaving of the workers that copy its partitions, TRUNCATE runs on
\* the target table at most once, and exactly once before the COPY of any
\* of its partitions.
C11_TruncateOnce ==
    \A t \in PartitionedTables :
        /\ truncated[t.oid] <= 1
        /\ PartitionCopyStarted(t) => truncated[t.oid] = 1

\* two workers have copied the partitions of the table, one of them has
\* found <oid>.truncate in the critical section
C11_Witness ==
    \E t \in PartitionedTables :
        /\ truncated[t.oid] = 1
        /\ \E n, m \in PartNumbers(t) :
              LET a == TablePaths([table |-> t, partNumber |-> n]).doneFile
                  b == TablePaths([table |-> t, partNumber |-> m]).doneFile
              IN /\ file_exists(fs, a)
                 /\ file_exists(fs, b)
                 /\ fs.files[a].pid # fs.files[b].pid

\* C12 (as claimed): for a table split in partitions, whatever the
\* interleaving of the workers that finish its partitions, the index-list
\* file is written and the index and vacuum jobs of the table are enqueued
\* never twice, and exactly once when the table workers are through.
C12_FanoutOnce ==
    \A t \in PartitionedTables :
        /\ fanout[t.oid] <= 1
        /\ \A e \in sent : (e.queue = "vacuum" /\ e.oid = t.oid) => e.n = 1
        /\ ppc \notin {"start", "copy"} => fanout[t.oid] = 1

\* the table of a job
TableOfJob(e) ==
    CHOOSE t \in SourceTables :
        t.oid = IF e.queue = "index" THEN IndexByOid(e.oid).tableOid
                ELSE e.oid

\* C13: no index job and no vacuum job of a table has been enqueued, and so
\* none is in a queue or in the hands of a worker, unless the done file of
\* every partition of the table exists.
C13_JobsAfterAllDoneFiles ==
    \A e \in sent :
        \A n \in PartNumbers(TableOfJob(e)) :
            file_exists(fs, TablePaths([table |-> TableOfJob(e),
                                        partNumber |-> n]).doneFile)

\* an index worker builds the index of the table split in partitions
C13_Witness ==
    /\ \E e \in sent : e.queue = "index" /\ TableOfJob(e) \in PartitionedTables
    /\ \E x \in IndexWorkers :
          /\ iw[x].pc = "index"
          /\ IndexByOid(iw[x].job).tableOid \in
                 { t.oid : t \in PartitionedTables }

\* C16: for every index that backs a constraint, in every state of the
\* work directory, the done file of the constraint exists only if the done
\* file of the index exists.
C16_IndexDoneBeforeConstraintDone ==
    \A ix \in SourceIndexes :
        (ix.constraintOid # 0
           /\ file_exists(fs, IndexPaths(Paths, ix).constraintDoneFile))
        => file_exists(fs, IndexPaths(Paths, ix).doneFile)

C16_Witness ==
    \E ix \in SourceIndexes :
        /\ ix.constraintOid # 0
        /\ file_exists(fs, IndexPaths(Paths, ix).constraintDoneFile)
        /\ fs.files[IndexPaths(Paths, ix).constraintDoneFile].oid
               = ix.constraintOid
        /\ fs.files[IndexPaths(Paths, ix).doneFile].oid = ix.indexOid

\* C17: the restore of the post-data section starts only when
\* run/tables.done, run/indexes.done, run/sequences.done and run/blobs.done
\* exist; run/tables.done exists only if every work-item has its done file
\* and run/indexes.done only if every index and every constraint has its
\* done file.
C17_PostDataRestoreLast ==
    /\ ppc \in {"postDataRestore", "done"} =>
          \A name \in {"tables", "indexes", "sequences", "blobs"} :
              file_exists(fs, Paths.done[name])
    /\ file_exists(fs, Paths.done.tables) =>
          \A i \in WorkItems : file_exists(fs, TablePaths(i).doneFile)
    /\ file_exists(fs, Paths.done.indexes) =>
          \A ix \in SourceIndexes :
              /\ file_exists(fs, IndexPaths(Paths, ix).doneFile)
              /\ ix.constraintOid # 0 =>
                    file_exists(fs, IndexPaths(Paths, ix).constraintDoneFile)

C17_Witness ==
    /\ ppc = "postDataRestore"
    /\ file_exists(fs, Paths.done.indexes)
    /\ file_exists(fs, Paths.done.blobs)
    /\ ~file_exists(fs, Paths.done.postDataRestore)

\* the parent has closed the two queues
QueuesClosed == ppc \notin {"start", "copy"}

QueueWorkersExited ==
    /\ \A x \in IndexWorkers : iw[x].pc = "exited"
    /\ \A x \in VacuumWorkers : vw[x].pc = "exited"

\* C18: once the table work-items are done and the parent has closed the
\* index queue and the vacuum queue, every index worker and every vacuum
\* worker eventually exits, with code zero; they leave no message in the
\* queues and every index job enqueued has its done file.
C18_QueueWorkersExit ==
    /\ QueuesClosed ~> QueueWorkersExited
    /\ [](QueueWorkersExited =>
            /\ indexQueue = << >>
            /\ vacuumQueue = << >>
            /\ \A e \in sent :
                  e.queue = "index" =>
                     file_exists(fs, IndexPaths(Paths,
                                                IndexByOid(e.oid)).doneFile))

C18_Witness ==
    /\ QueueWorkersExited
    /\ \E e \in sent : e.queue = "index"
    /\ \E e \in sent : e.queue = "vacuum"

-----------------------------------------------------------------------------
(* The snapshot of the source database: copydb_prepare_snapshot,            *)
(* copydb_export_snapshot, copydb_set_snapshot, copydb_copy_snapshot and    *)
(* copydb_close_snapshot                                                    *)

\* the identifier a caller may give with --snapshot
GivenSnapshot == "00000003-0000001B-1"

SnapshotArgs == {"", GivenSnapshot}

\* the identifier pg_export_snapshot() returns in the n-th run
ExportedSnapshot(n) ==
    IF n = 1 THEN "00000004-0000002C-1" ELSE "00000005-0000003D-1"

\* the calls that may fail in the functions that deal with the snapshot;
\* "none": they all succeed
FailPoints ==
    { "none", "pgsql_init", "pgsql_begin", "pgsql_set_transaction",
      "pgsql_export_snapshot", "pgsql_set_snapshot", "write_file",
      "pgsql_set_gucs", "pgsql_commit" }

pgsql_begin(pgsql) == [pgsql EXCEPT !.st = "open", !.begun = TRUE]

pgsql_set_transaction(pgsql, level, readOnly, deferrable) ==
    [pgsql EXCEPT !.level = level, !.readOnly = readOnly,
                  !.deferrable = deferrable]

pgsql_export_snapshot(pgsql, id) == [pgsql EXCEPT !.exported = id]

pgsql_set_snapshot(pgsql, id) == [pgsql EXCEPT !.imported = id]

pgsql_set_gucs(pgsql) == [pgsql EXCEPT !.gucs = TRUE]

pgsql_commit(pgsql) == [pgsql EXCEPT !.st = "committed"]

\* the connection is closed: a transaction still open is rolled back
pgsql_finish(pgsql) ==
    [pgsql EXCEPT !.st = IF @ = "open" THEN "finished" ELSE @]

IS_EMPTY_STRING_BUFFER(str) == str = ""

\* copydb_init_specs, for what it does to the snapshot: the identifier
\* given on the command line is copied when there is one
copydb_init_specs(snapshot, consistent) ==
    [ consistent |-> consistent,
      sourceSnapshot |-> [ NoSnapshot EXCEPT
                               !.snapshot = IF ~IS_EMPTY_STRING_BUFFER(snapshot)
                                            THEN snapshot
                                            ELSE "" ] ]

\* copydb_export_snapshot on a TransactionSnapshot; id is the identifier the
\* server gives, fail the call that fails.  The result is [ok, snapshot].
copydb_export_snapshot_state_first(snapshot, id, fail) ==
    LET pg0 == NoPgsql
        pg1 == pgsql_begin(pg0)
        pg2 == pgsql_set_transaction(pg1, "SERIALIZABLE", FALSE, TRUE)
        pg3 == pgsql_export_snapshot(pg2, id)
        early == [snapshot EXCEPT !.state = "EXPORTED"]
    IN IF fail = "pgsql_init"
       THEN [ok |-> FALSE, snapshot |-> [early EXCEPT !.pgsql = pg0]]
       ELSE IF fail = "pgsql_begin"
       THEN [ok |-> FALSE, snapshot |-> [early EXCEPT !.pgsql = pg0]]
       ELSE IF fail = "pgsql_set_transaction"
       THEN [ok |-> FALSE,
             snapshot |-> [early EXCEPT !.pgsql = pgsql_finish(pg1)]]
       ELSE IF fail = "pgsql_export_snapshot"
       THEN [ok |-> FALSE,
             snapshot |-> [early EXCEPT !.pgsql = pgsql_finish(pg2)]]
       ELSE [ok |-> TRUE,
             snapshot |-> [early EXCEPT !.pgsql = pg3, !.snapshot = id]]

copydb_export_snapshot(snapshot, id, fail) ==
    LET pg0 == NoPgsql
        pg1 == pgsql_begin(pg0)
        pg2 == pgsql_set_transaction(pg1, "SERIALIZABLE", FALSE, TRUE)
        pg3 == pgsql_export_snapshot(pg2, id)
    IN IF fail = "pgsql_init"
       THEN [ok |-> FALSE, snapshot |-> [snapshot EXCEPT !.pgsql = pg0]]
       ELSE IF fail = "pgsql_begin"
       THEN [ok |-> FALSE, snapshot |-> [snapshot EXCEPT !.pgsql = pg0]]
       ELSE IF fail = "pgsql_set_transaction"
       THEN [ok |-> FALSE,
             snapshot |-> [snapshot EXCEPT !.pgsql = pgsql_finish(pg1)]]
       ELSE IF fail = "pgsql_export_snapshot"
       THEN [ok |-> FALSE,
             snapshot |-> [snapshot EXCEPT !.pgsql = pgsql_finish(pg2)]]
       ELSE [ok |-> TRUE,
             snapshot |-> [snapshot EXCEPT !.pgsql = pg3,
                                           !.snapshot = id,
                                           !.state = "EXPORTED"]]

\* copydb_set_snapshot on a CopyDataSpec; fail is the call that fails.  The
\* result is [ok, specs].
copydb_set_snapshot_always_imports(specs, fail) ==
    LET snapshot == specs.sourceSnapshot
        pg0 == NoPgsql
        pg1 == pgsql_begin(pg0)
        pg2 == pgsql_set_transaction(pg1, "REPEATABLE READ", FALSE, TRUE)
        pg3 == pgsql_set_snapshot(pg2, snapshot.snapshot)
        With(pg, state) ==
            [specs EXCEPT !.sourceSnapshot.pgsql = pg,
                          !.sourceSnapshot.state = state]
    IN IF fail \in {"pgsql_init", "pgsql_begin"}
       THEN [ok |-> FALSE, specs |-> With(pg0, snapshot.state)]
       ELSE IF fail = "pgsql_set_transaction"
       THEN [ok |-> FALSE, specs |-> With(pgsql_finish(pg1), snapshot.state)]
       ELSE IF fail = "pgsql_set_snapshot"
       THEN [ok |-> FALSE, specs |-> With(pgsql_finish(pg2), snapshot.state)]
       ELSE IF fail = "pgsql_set_gucs"
       THEN [ok |-> FALSE, specs |-> With(pg3, "SET")]
       ELSE [ok |-> TRUE, specs |-> With(pgsql_set_gucs(pg3), "SET")]

copydb_set_snapshot(specs, fail) ==
    LET snapshot == specs.sourceSnapshot
        pg0 == NoPgsql
        pg1 == pgsql_begin(pg0)
        pg2 == pgsql_set_transaction(pg1, "REPEATABLE READ", FALSE, TRUE)
        pg3 == pgsql_set_snapshot(pg2, snapshot.snapshot)
        With(pg, state) ==
            [specs EXCEPT !.sourceSnapshot.pgsql = pg,
                          !.sourceSnapshot.state = state]
    IN IF fail \in {"pgsql_init", "pgsql_begin"}
       THEN [ok |-> FALSE, specs |-> With(pg0, snapshot.state)]
       ELSE IF specs.consistent
       THEN IF fail = "pgsql_set_transaction"
            THEN [ok |-> FALSE,
                  specs |-> With(pgsql_finish(pg1), snapshot.state)]
            ELSE IF fail = "pgsql_set_snapshot"
            THEN [ok |-> FALSE,
                  specs |-> With(pgsql_finish(pg2), snapshot.state)]
            ELSE IF fail = "pgsql_set_gucs"
            THEN [ok |-> FALSE, specs |-> With(pg3, "SET")]
            ELSE [ok |-> TRUE, specs |-> With(pgsql_set_gucs(pg3), "SET")]
       ELSE IF fail = "pgsql_set_gucs"
            THEN [ok |-> FALSE, specs |-> With(pg1, "NOT_CONSISTENT")]
            ELSE [ok |-> TRUE,
                  specs |-> With(pgsql_set_gucs(pg1), "NOT_CONSISTENT")]

\* copydb_prepare_snapshot on the CopyDataSpec of the parent, with the file
\* system f; id is the identifier the server gives to an exported snapshot,
\* fail the call that fails.  The result is [ok, specs, fs].
copydb_prepare_snapshot(specs, f, id, fail) ==
    IF ~specs.consistent
    THEN [ok |-> TRUE,
          specs |-> [specs EXCEPT !.sourceSnapshot.state = "SKIPPED"],
          fs |-> f]
    ELSE
    LET opened ==
            IF IS_EMPTY_STRING_BUFFER(specs.sourceSnapshot.snapshot)
            THEN LET r == copydb_export_snapshot(specs.sourceSnapshot, id,
                                                 fail)
                 IN [ok |-> r.ok,
                     specs |-> [specs EXCEPT !.sourceSnapshot = r.snapshot]]
            ELSE \* the GUCs are set at the end of copydb_set_snapshot, and
                 \* then again at the end of this function
                 copydb_set_snapshot(specs,
                                     IF fail = "pgsql_set_gucs" THEN "none"
                                     ELSE fail)
        written == directory_exists(f, ParentDir(Paths.snfile))
                      /\ fail # "write_file"
    IN IF ~opened.ok
       THEN [ok |-> FALSE, specs |-> opened.specs, fs |-> f]
       ELSE IF ~written
       THEN [ok |-> FALSE, specs |-> opened.specs, fs |-> f]
       ELSE LET f2 == write_file(f, Paths.snfile,
                                 opened.specs.sourceSnapshot.snapshot)
            IN IF fail = "pgsql_set_gucs"
               THEN [ok |-> FALSE, specs |-> opened.specs, fs |-> f2]
               ELSE [ok |-> TRUE,
                     specs |-> [opened.specs EXCEPT
                                   !.sourceSnapshot.pgsql = pgsql_set_gucs(@)],
                     fs |-> f2]

\* copydb_copy_snapshot: a new TransactionSnapshot with the identifier of
\* the snapshot of the parent
copydb_copy_snapshot_without_identifier(specs) ==
    [ NoSnapshot EXCEPT !.snapshot = "" ]

copydb_copy_snapshot(specs) ==
    [ NoSnapshot EXCEPT !.snapshot = specs.sourceSnapshot.snapshot ]

\* copydb_init_table_specs, for what it does to the snapshot
copydb_init_table_specs_snapshot(specs) ==
    [ sourceSnapshot |-> copydb_copy_snapshot(specs) ]

copydb_close_snapshot_closed_on_failure(specs, fail) ==
    LET snapshot == specs.sourceSnapshot
    IN IF snapshot.state \in {"SET", "EXPORTED", "NOT_CONSISTENT"}
       THEN IF fail = "pgsql_commit"
            THEN [ok |-> FALSE,
                  specs |-> [specs EXCEPT !.sourceSnapshot.state = "CLOSED"]]
            ELSE [ok |-> TRUE,
                  specs |-> [specs EXCEPT
                               !.sourceSnapshot.pgsql =
                                   pgsql_finish(pgsql_commit(@)),
                               !.sourceSnapshot.state = "CLOSED"]]
       ELSE [ok |-> TRUE,
             specs |-> [specs EXCEPT !.sourceSnapshot.state = "CLOSED"]]

\* copydb_close_snapshot; the result is [ok, specs]
copydb_close_snapshot(specs, fail) ==
    LET snapshot == specs.sourceSnapshot
    IN IF snapshot.state \in {"SET", "EXPORTED", "NOT_CONSISTENT"}
       THEN IF fail = "pgsql_commit"
            THEN [ok |-> FALSE, specs |-> specs]
            ELSE [ok |-> TRUE,
                  specs |-> [specs EXCEPT
                               !.sourceSnapshot.pgsql =
                                   pgsql_finish(pgsql_commit(@)),
                               !.sourceSnapshot.state = "CLOSED"]]
       ELSE [ok |-> TRUE,
             specs |-> [specs EXCEPT !.sourceSnapshot.state = "CLOSED"]]

\* A run starts: the work directory is there and copydb_init_specs fills the
\* CopyDataSpec from the command line.
SnapInitSpecs(snapshot, consistent) ==
    /\ snpc \in {"start", "closed", "failed"}
    /\ snrun < SnapRuns
    /\ snrun' = snrun + 1
    /\ snapshotArg' = snapshot
    /\ copySpecs' = copydb_init_specs(snapshot, consistent)
    /\ fs' = copydb_init_workdir(fs, {}, snrun + 1, FALSE, TRUE, FALSE).fs
    /\ sw' = [w \in SnapWorkers |-> NoSnapWorker]
    /\ imports' = {}
    /\ snpc' = "init"
    /\ UNCHANGED <<baseVars, notSnapVars>>

\* The parent calls copydb_prepare_snapshot; it exits when the call fails,
\* and its transaction is then rolled back.
SnapPrepare(fail) ==
    /\ snpc = "init"
    /\ LET r == copydb_prepare_snapshot(copySpecs, fs,
                                        ExportedSnapshot(snrun), fail)
       IN /\ fs' = r.fs
          /\ copySpecs' =
                IF r.ok THEN r.specs
                ELSE [r.specs EXCEPT !.sourceSnapshot.pgsql = pgsql_finish(@)]
          /\ snpc' = IF r.ok THEN "prepared" ELSE "failed"
    /\ UNCHANGED <<snapshotArg, snrun, sw, imports, baseVars, notSnapVars>>

\* The parent prepares the work-item of a worker with copydb_init_table_specs
\* and forks the worker, which has its own copy of the CopyDataSpec.
SnapFork(w) ==
    /\ snpc = "prepared"
    /\ sw[w].pc = "unborn"
    /\ sw' = [sw EXCEPT ![w] =
                 [ pc |-> "forked",
                   tableSpecs |-> copydb_init_table_specs_snapshot(copySpecs),
                   copySpecs |-> [copySpecs EXCEPT !.sourceSnapshot =
                                      copydb_init_table_specs_snapshot(copySpecs)
                                          .sourceSnapshot] ]]
    /\ UNCHANGED <<fs, copySpecs, snapshotArg, snpc, snrun, imports,
                   baseVars, notSnapVars>>

\* the transaction in which the parent has exported or imported the snapshot
\* is open
SourceTransactionOpen == copySpecs.sourceSnapshot.pgsql.st = "open"

\* A worker opens its transaction on the source with copydb_set_snapshot,
\* which imports the snapshot of its work-item in consistent mode.
SnapWorkerSet(w, fail) ==
    /\ sw[w].pc = "forked"
    /\ LET r == copydb_set_snapshot(sw[w].copySpecs, fail)
       IN /\ sw' = [sw EXCEPT ![w].pc = IF r.ok THEN "set" ELSE "failed",
                              ![w].copySpecs = r.specs]
          /\ imports' =
                IF r.specs.sourceSnapshot.pgsql.imported # ""
                THEN imports \cup
                        {[ worker |-> w,
                           snapshot |-> r.specs.sourceSnapshot.pgsql.imported,
                           exporterOpen |-> SourceTransactionOpen ]}
                ELSE imports
    /\ UNCHANGED <<fs, copySpecs, snapshotArg, snpc, snrun, baseVars,
                   notSnapVars>>

\* A worker is through, or has failed: it exits.
SnapWorkerExit(w) ==
    /\ sw[w].pc \in {"set", "failed"}
    /\ sw' = [sw EXCEPT ![w].pc = "exited",
                        ![w].copySpecs.sourceSnapshot.pgsql = pgsql_finish(@)]
    /\ UNCHANGED <<fs, copySpecs, snapshotArg, snpc, snrun, imports,
                   baseVars, notSnapVars>>

\* The parent has forked its workers and joined them all: it calls
\* copydb_close_snapshot.
SnapCloseBeforeJoin(fail) ==
    /\ snpc = "prepared"
    /\ LET r == copydb_close_snapshot(copySpecs, fail)
       IN /\ copySpecs' = r.specs
          /\ snpc' = IF r.ok THEN "closed" ELSE "failed"
    /\ UNCHANGED <<fs, snapshotArg, snrun, sw, imports, baseVars,
                   notSnapVars>>

SnapClose(fail) ==
    /\ snpc = "prepared"
    /\ \A w \in SnapWorkers : sw[w].pc = "exited"
    /\ LET r == copydb_close_snapshot(copySpecs, fail)
       IN /\ copySpecs' = r.specs
          /\ snpc' = IF r.ok THEN "closed" ELSE "failed"
    /\ UNCHANGED <<fs, snapshotArg, snrun, sw, imports, baseVars,
                   notSnapVars>>

NextSnapshot ==
    \/ \E snapshot \in SnapshotArgs, consistent \in BOOLEAN :
          SnapInitSpecs(snapshot, consistent)
    \/ \E fail \in FailPoints : SnapPrepare(fail)
    \/ \E w \in SnapWorkers : SnapFork(w)
    \/ \E w \in SnapWorkers, fail \in FailPoints : SnapWorkerSet(w, fail)
    \/ \E w \in SnapWorkers : SnapWorkerExit(w)
    \/ \E fail \in FailPoints : SnapClose(fail)

SpecSnapshot == Init /\ [][NextSnapshot]_vars

-----------------------------------------------------------------------------
(* Claims about the snapshot *)

\* the transaction has been begun read-write and deferrable at the level
IsTransaction(pgsql, level) ==
    /\ pgsql.begun
    /\ pgsql.level = level
    /\ ~pgsql.readOnly
    /\ pgsql.deferrable

\* C21: in consistent mode a successful copydb_prepare_snapshot has exported
\* a snapshot in a SERIALIZABLE read-write deferrable transaction (state
\* EXPORTED) when no identifier was given, and has imported the identifier
\* given in a REPEATABLE READ read-write deferrable transaction (state SET)
\* otherwise; the state is EXPORTED or SET only if the transaction was begun,
\* its characteristics set and the snapshot exported or imported.
C21_ExportedOrSetOnlyOnSuccess ==
    LET snapshot == copySpecs.sourceSnapshot
    IN /\ (snpc = "prepared" /\ copySpecs.consistent) =>
             snapshot.state = IF snapshotArg = "" THEN "EXPORTED" ELSE "SET"
       /\ snapshot.state = "EXPORTED" =>
             /\ copySpecs.consistent
             /\ snapshotArg = ""
             /\ IsTransaction(snapshot.pgsql, "SERIALIZABLE")
             /\ snapshot.pgsql.exported # ""
             /\ snapshot.pgsql.exported = snapshot.snapshot
       /\ snapshot.state = "SET" =>
             /\ copySpecs.consistent
             /\ snapshotArg # ""
             /\ IsTransaction(snapshot.pgsql, "REPEATABLE READ")
             /\ snapshot.pgsql.imported = snapshotArg

\* a first run has exported a snapshot, the next one has imported the
\* snapshot given
C21_Witness ==
    /\ snrun = 2
    /\ snpc = "prepared"
    /\ copySpecs.sourceSnapshot.state = "SET"
    /\ copySpecs.sourceSnapshot.pgsql.st = "open"
    /\ file_exists(fs, Paths.snfile)

\* the parent has called copydb_prepare_snapshot with success in consistent
\* mode, and has not failed since
PreparedConsistent == snpc \in {"prepared", "closed"} /\ copySpecs.consistent

\* C22: after a successful copydb_prepare_snapshot in consistent mode the
\* snapshot file holds exactly the identifier in use, which is the one given
\* by the caller if any and the one exported otherwise, and every work-item
\* that copydb_init_table_specs has prepared since carries this identifier.
C22_SnapshotFileAndWorkItems ==
    LET snapshot == copySpecs.sourceSnapshot
    IN PreparedConsistent =>
          /\ snapshot.snapshot # ""
          /\ snapshot.snapshot = IF snapshotArg # "" THEN snapshotArg
                                 ELSE snapshot.pgsql.exported
          /\ file_exists(fs, Paths.snfile)
          /\ fs.files[Paths.snfile] = snapshot.snapshot
          /\ \A w \in SnapWorkers :
                sw[w].pc # "unborn" =>
                   sw[w].tableSpecs.sourceSnapshot.snapshot
                      = snapshot.snapshot

\* the second run is given a snapshot: the file of the first run is replaced
C22_Witness ==
    /\ PreparedConsistent
    /\ snrun = 2
    /\ snapshotArg = GivenSnapshot
    /\ fs.files[Paths.snfile] = GivenSnapshot
    /\ \A w \in SnapWorkers :
          sw[w].tableSpecs.sourceSnapshot.snapshot = GivenSnapshot

\* C23: with --not-consistent, copydb_prepare_snapshot leaves the file system
\* and the source connection as they are and sets the state SKIPPED, a
\* snapshot identifier given or not; copydb_set_snapshot sets the state
\* NOT_CONSISTENT in a transaction it has begun, whose isolation level it
\* has not set and in which it has imported no snapshot.
C23_NotConsistent ==
    /\ [][(snpc = "init" /\ snpc' # "init" /\ ~copySpecs.consistent) =>
             /\ snpc' = "prepared"
             /\ fs' = fs
             /\ copySpecs'.sourceSnapshot.pgsql = copySpecs.sourceSnapshot.pgsql
             /\ copySpecs'.sourceSnapshot.pgsql.st = "none"
             /\ copySpecs'.sourceSnapshot.state = "SKIPPED"]_vars
    /\ [](\A w \in SnapWorkers :
            LET snapshot == sw[w].copySpecs.sourceSnapshot
            IN /\ (~sw[w].copySpecs.consistent /\ sw[w].pc = "set") =>
                     /\ snapshot.state = "NOT_CONSISTENT"
                     /\ snapshot.pgsql.st = "open"
               /\ snapshot.state = "NOT_CONSISTENT" =>
                     /\ ~sw[w].copySpecs.consistent
                     /\ snapshot.pgsql.begun
                     /\ snapshot.pgsql.level = ""
                     /\ snapshot.pgsql.imported = "")

C23_Witness ==
    /\ ~copySpecs.consistent
    /\ snapshotArg = GivenSnapshot
    /\ snpc = "prepared"
    /\ copySpecs.sourceSnapshot.state = "SKIPPED"
    /\ ~file_exists(fs, Paths.snfile)
    /\ \E w \in SnapWorkers :
          /\ sw[w].pc = "set"
          /\ sw[w].copySpecs.sourceSnapshot.state = "NOT_CONSISTENT"

\* C24: in consistent mode, the transaction in which the parent has exported
\* the snapshot, or imported the one given, is open whenever a worker imports
\* the snapshot; once copydb_close_snapshot has committed it, no worker is
\* left that has yet to import.
C24_ExporterOpenAtImport ==
    /\ \A i \in imports : i.exporterOpen
    /\ copySpecs.sourceSnapshot.pgsql.st \in {"committed", "finished"} =>
          \A w \in SnapWorkers : sw[w].pc # "forked"

C24_Witness ==
    /\ snapshotArg = ""
    /\ snpc = "closed"
    /\ copySpecs.sourceSnapshot.state = "CLOSED"
    /\ copySpecs.sourceSnapshot.pgsql.st = "committed"
    /\ \A w \in SnapWorkers :
          \E i \in imports :
              /\ i.worker = w
              /\ i.snapshot = copySpecs.sourceSnapshot.snapshot
              /\ i.snapshot = ExportedSnapshot(snrun)

-----------------------------------------------------------------------------
(* The COPY queries of the partitions of a table: copydb_init_table_specs  *)

\* the decimal digits of a natural number, most significant first
RECURSIVE DecimalDigits(_)
DecimalDigits(n) ==
    IF n < 10 THEN <<n>> ELSE Append(DecimalDigits(n \div 10), n % 10)

\* sformat("%lld", n): a sign and decimal digits
FormatLld(n) ==
    [ minus |-> n < 0, digits |-> DecimalDigits(IF n < 0 THEN 0 - n ELSE n) ]

\* the number the server reads in a literal that "%lld" has written
RECURSIVE DigitsValue(_)
DigitsValue(digits) ==
    IF digits = << >> THEN 0
    ELSE 10 * DigitsValue(SubSeq(digits, 1, Len(digits) - 1))
            + digits[Len(digits)]

LiteralValue(literal) ==
    IF literal.minus THEN 0 - DigitsValue(literal.digits)
    ELSE DigitsValue(literal.digits)

\* the least and the greatest key of the tables studied
FirstKeys == -2 .. 1

\* the keys of the rows of the source table: they go beyond the bounds of
\* the partitions on both sides
KeySpace == -4 .. (2 + SplitParts * SplitWidth)

\* the partsArray of a table split in parts that follow one another: the
\* first one starts at key first, part i holds widths[i] key values
RECURSIVE PartsArray(_, _)
PartsArray(first, widths) ==
    IF widths = << >> THEN << >>
    ELSE << [ min |-> first, max |-> first + widths[1] - 1 ] >>
            \o PartsArray(first + widths[1], Tail(widths))

\* the sequences of at most n widths
RECURSIVE WidthSeqs(_)
WidthSeqs(n) ==
    IF n = 0 THEN { << >> }
    ELSE WidthSeqs(n - 1)
            \cup { Append(ws, w) : ws \in { x \in WidthSeqs(n - 1) :
                                              Len(x) = n - 1 },
                                   w \in 1 .. SplitWidth }

\* the part and its COPY query, as copydb_init_table_specs prepares them for
\* the partition partNumber (counted from 0) of the source table
copydb_init_table_specs_part_max_excluded(source, partNumber) ==
    LET entry == source.partsArray[partNumber + 1]
    IN [ partNumber |-> partNumber,
         min |-> entry.min,
         max |-> entry.max,
         copyQuery |-> [ from |-> source.qname,
                         partKey |-> source.partKey,
                         between |-> FormatLld(entry.min),
                         and |-> FormatLld(entry.max - 1) ] ]

copydb_init_table_specs_part(source, partNumber) ==
    LET entry == source.partsArray[partNumber + 1]
    IN [ partNumber |-> partNumber,
         min |-> entry.min,
         max |-> entry.max,
         copyQuery |-> [ from |-> source.qname,
                         partKey |-> source.partKey,
                         between |-> FormatLld(entry.min),
                         and |-> FormatLld(entry.max) ] ]

\* the keys of the rows the server selects for a COPY query: BETWEEN takes
\* both bounds in
SelectedKeys(copyQuery) ==
    { k \in KeySpace :
         /\ LiteralValue(copyQuery.between) <= k
         /\ k <= LiteralValue(copyQuery.and) }

\* copydb_init_table_specs is called for each partition of a table.
SplitTable(first, widths) ==
    /\ widths # << >>
    /\ LET source == [ qname |-> "\"public\".\"t\"", partKey |-> "id",
                       partsArray |-> PartsArray(first, widths) ]
           parts == [ n \in 1 .. Len(widths) |->
                         copydb_init_table_specs_part(source, n - 1) ]
       IN probe' = [ fn |-> "copydb_init_table_specs",
                     partsArray |-> source.partsArray,
                     parts |-> parts,
                     rows |-> [ n \in 1 .. Len(widths) |->
                                   SelectedKeys(parts[n].copyQuery) ] ]
    /\ UNCHANGED <<fs, baseVars, snapVars, streamVars>>

NextSplit ==
    \E first \in FirstKeys, widths \in WidthSeqs(SplitParts) :
        SplitTable(first, widths)

SpecSplit == Init /\ [][NextSplit]_vars

\* C25: when each partition starts right after the end of the one before
\* (min of the next = max + 1), the rows that the COPY queries of the
\* partitions select are disjoint two by two, and every row whose key lies
\* between the min of the first partition and the max of the last is
\* selected by one of them.
C25_PartitionsDisjointAndCover ==
    probe.fn = "copydb_init_table_specs" =>
       LET N == Len(probe.partsArray)
       IN /\ \A i, j \in 1 .. N :
                i # j => probe.rows[i] \cap probe.rows[j] = {}
          /\ UNION { probe.rows[i] : i \in 1 .. N }
                = { k \in KeySpace :
                       /\ probe.partsArray[1].min <= k
                       /\ k <= probe.partsArray[N].max }

\* a table split in three parts, the first of which starts below zero
C25_Witness ==
    /\ probe.fn = "copydb_init_table_specs"
    /\ Len(probe.partsArray) = 3
    /\ probe.partsArray[1].min < 0
    /\ \A i \in 1 .. 2 :
          probe.partsArray[i + 1].min = probe.partsArray[i].max + 1
    /\ \A i \in 1 .. 3 : Cardinality(probe.rows[i]) >= 2

-----------------------------------------------------------------------------
(* summary.c: reading the summary files back.  In this part a file holds    *)
(* the sequence of its lines.                                               *)

\* the number of lines of a table or index summary, and of a blobs summary
COPY_TABLE_SUMMARY_LINES == 8

COPY_BLOBS_SUMMARY_LINES == 3

\* the numbers written in the files of the ledgers studied
NumeralValues == {0, 7, 10, 17, 4242} \cup (16384 .. 16392)

\* stringToInt, stringToUInt64: the number a line holds, if
\* the line is a number
stringToInt(str) ==
    IF \E n \in NumeralValues : ToString(n) = str
    THEN [ok |-> TRUE,
          value |-> CHOOSE n \in NumeralValues : ToString(n) = str]
    ELSE [ok |-> FALSE, value |-> 0]

\* the oids a file may hold: those of the ledgers studied, and the ends of
\* the upper half of the uint32_t domain, 2^31 - 1, 2^31 and 2^32 - 1
OidValues ==
    { n \in NumeralValues : n >= 0 } \cup {2147483647, (0 - 2147483647) - 1, 0 - 1}

\* stringToUInt32: the oid a line holds, if the line is the unsigned decimal
\* numeral of a number of 0 .. 2^32 - 1; a numeral with a minus sign is
\* refused
stringToUInt32(str) ==
    IF \E n \in OidValues : FormatU(n) = str
    THEN [ok |-> TRUE,
          value |-> CHOOSE n \in OidValues : FormatU(n) = str]
    ELSE [ok |-> FALSE, value |-> 0]

\* the eight lines write_table_summary and write_index_summary write: pid,
\* oid, namespace, name, start time, done time, duration, command
SummaryFileLines(oid) ==
    << "4242", ToString(oid), "public", "name", "10", "17", "7", "COPY" >>

\* the three lines write_blobs_summary writes: pid, count, duration
BlobsFileLines == << "4242", "10", "7" >>

\* read_file fails when the file does not exist
read_file(f, filename) ==
    IF file_exists(f, filename)
    THEN [ok |-> TRUE, contents |-> f.files[filename]]
    ELSE [ok |-> FALSE, contents |-> << >>]

\* splitLines returns the number of lines of the contents
splitLines(contents) == Len(contents)

\* the line of the file, or an empty line where the file has none
LineOrEmpty(lines, n) == IF n <= Len(lines) THEN lines[n] ELSE ""

NoSummary ==
    [ pid |-> 0, oid |-> 0, nspname |-> "", relname |-> "", startTime |-> 0,
      doneTime |-> 0, durationMs |-> 0, command |-> "" ]

\* the fields read_table_summary and read_index_summary parse; the result is
\* [ok, summary]
ParseSummaryLines(lines) ==
    LET pid == stringToInt(LineOrEmpty(lines, 1))
        oid == stringToUInt32(LineOrEmpty(lines, 2))
        startTime == stringToInt(LineOrEmpty(lines, 5))
        doneTime == stringToInt(LineOrEmpty(lines, 6))
        durationMs == stringToInt(LineOrEmpty(lines, 7))
    IN IF pid.ok /\ oid.ok /\ startTime.ok /\ doneTime.ok /\ durationMs.ok
       THEN [ok |-> TRUE,
             summary |-> [ pid |-> pid.value, oid |-> oid.value,
                           nspname |-> LineOrEmpty(lines, 3),
                           relname |-> LineOrEmpty(lines, 4),
                           startTime |-> startTime.value,
                           doneTime |-> doneTime.value,
                           durationMs |-> durationMs.value,
                           command |-> LineOrEmpty(lines, 8) ]]
       ELSE [ok |-> FALSE, summary |-> NoSummary]

read_table_summary_without_line_count(f, filename) ==
    LET file == read_file(f, filename)
    IN IF ~file.ok
       THEN [ok |-> FALSE, summary |-> NoSummary]
       ELSE ParseSummaryLines([file.contents EXCEPT ![1] = "0", ![2] = "0"])

read_table_summary(f, filename) ==
    LET file == read_file(f, filename)
        lineCount == splitLines(file.contents)
    IN IF ~file.ok
       THEN [ok |-> FALSE, summary |-> NoSummary]
       ELSE IF lineCount < COPY_TABLE_SUMMARY_LINES
       THEN [ok |-> FALSE, summary |-> NoSummary]
       ELSE ParseSummaryLines(file.contents)

read_index_summary(f, filename) ==
    LET file == read_file(f, filename)
        lineCount == splitLines(file.contents)
    IN IF ~file.ok
       THEN [ok |-> FALSE, summary |-> NoSummary]
       ELSE IF lineCount < COPY_TABLE_SUMMARY_LINES
       THEN [ok |-> FALSE, summary |-> NoSummary]
       ELSE ParseSummaryLines(file.contents)

NoBlobsSummary == [pid |-> 0, count |-> 0, durationMs |-> 0]

read_blobs_summary(f, filename) ==
    LET file == read_file(f, filename)
        lineCount == splitLines(file.contents)
        pid == stringToInt(LineOrEmpty(file.contents, 1))
        count == stringToInt(LineOrEmpty(file.contents, 2))
        durationMs == stringToInt(LineOrEmpty(file.contents, 3))
    IN IF ~file.ok
       THEN [ok |-> FALSE, summary |-> NoBlobsSummary]
       ELSE IF lineCount < COPY_BLOBS_SUMMARY_LINES
       THEN [ok |-> FALSE, summary |-> NoBlobsSummary]
       ELSE IF pid.ok /\ count.ok /\ durationMs.ok
       THEN [ok |-> TRUE,
             summary |-> [ pid |-> pid.value, count |-> count.value,
                           durationMs |-> durationMs.value ]]
       ELSE [ok |-> FALSE, summary |-> NoBlobsSummary]

\* read_table_index_file: the index list of a table, two lines per index; a
\* table without the file has no index.  The result is [ok, indexArray].
read_table_index_file(f, filename) ==
    LET file == read_file(f, filename)
        lineCount == splitLines(file.contents)
    IN IF ~file_exists(f, filename)
       THEN [ok |-> TRUE, indexArray |-> << >>]
       ELSE IF \A i \in 1 .. lineCount : stringToUInt32(file.contents[i]).ok
       THEN [ok |-> TRUE,
             indexArray |->
                 [ k \in 1 .. (lineCount \div 2) |->
                      [ indexOid |->
                            stringToUInt32(file.contents[2 * k - 1]).value,
                        constraintOid |->
                            stringToUInt32(file.contents[2 * k]).value ] ]]
       ELSE [ok |-> FALSE, indexArray |-> << >>]

\* every index and constraint of the list must have its done file
RECURSIVE ReadIndexSummariesAllRequired(_, _, _)
ReadIndexSummariesAllRequired(f, cfPaths, indexArray) ==
    IF indexArray = << >>
    THEN [ok |-> TRUE, durationMs |-> 0]
    ELSE LET indexPaths == IndexPaths(cfPaths, Head(indexArray))
             index == read_index_summary(f, indexPaths.doneFile)
             constraint == read_index_summary(f, indexPaths.constraintDoneFile)
             rest == ReadIndexSummariesAllRequired(f, cfPaths,
                                                   Tail(indexArray))
         IN [ok |-> index.ok /\ constraint.ok /\ rest.ok,
             durationMs |-> index.summary.durationMs
                               + constraint.summary.durationMs
                               + rest.durationMs]

\* what prepare_summary_table reads for the indexes of a work-item: the
\* index list only for the first partition of a table, then the done file
\* of each index and of its constraint, where the file exists.  The result
\* is [ok, count, durationMs].
RECURSIVE ReadIndexSummaries(_, _, _)
ReadIndexSummaries(f, cfPaths, indexArray) ==
    IF indexArray = << >>
    THEN [ok |-> TRUE, durationMs |-> 0]
    ELSE LET indexPaths == IndexPaths(cfPaths, Head(indexArray))
             index == IF file_exists(f, indexPaths.doneFile)
                      THEN read_index_summary(f, indexPaths.doneFile)
                      ELSE [ok |-> TRUE, summary |-> NoSummary]
             constraint ==
                 IF file_exists(f, indexPaths.constraintDoneFile)
                 THEN read_index_summary(f, indexPaths.constraintDoneFile)
                 ELSE [ok |-> TRUE, summary |-> NoSummary]
             rest == ReadIndexSummaries(f, cfPaths, Tail(indexArray))
         IN [ok |-> index.ok /\ constraint.ok /\ rest.ok,
             durationMs |-> index.summary.durationMs
                               + constraint.summary.durationMs
                               + rest.durationMs]

\* the sum of the durations ms[i] of the work-items i of the set S
RECURSIVE SumDurations(_, _)
SumDurations(S, ms) ==
    IF S = {} THEN 0
    ELSE LET i == CHOOSE x \in S : TRUE
         IN ms[i] + SumDurations(S \ {i}, ms)

prepare_summary_table_list_per_item(f, cfPaths) ==
    LET Table(i) == read_table_summary(f, TablePaths(i).doneFile)
        List(i) == read_table_index_file(f, TablePaths(i).idxListFile)
        Indexes(i) == ReadIndexSummaries(f, cfPaths, List(i).indexArray)
        blobs == IF file_exists(f, cfPaths.done.blobs)
                 THEN read_blobs_summary(f, cfPaths.done.blobs)
                 ELSE [ok |-> TRUE, summary |-> NoBlobsSummary]
    IN IF /\ \A i \in WorkItems : Table(i).ok /\ List(i).ok /\ Indexes(i).ok
          /\ blobs.ok
       THEN [ok |-> TRUE,
             table |-> [ i \in WorkItems |->
                            [ oid |-> i.table.oid,
                              tableMs |-> Table(i).summary.durationMs,
                              indexCount |-> Len(List(i).indexArray),
                              indexMs |-> Indexes(i).durationMs ] ],
             tableDurationMs |->
                 SumDurations(WorkItems,
                              [ i \in WorkItems |->
                                   Table(i).summary.durationMs ]),
             indexDurationMs |->
                 SumDurations(WorkItems,
                              [ i \in WorkItems |-> Indexes(i).durationMs ]),
             blobDurationMs |-> blobs.summary.durationMs]
       ELSE [ok |-> FALSE, table |-> << >>, tableDurationMs |-> 0,
             indexDurationMs |-> 0, blobDurationMs |-> 0]

\* prepare_summary_table on the work-items of the catalog; the result is
\* [ok, table, tableDurationMs, indexDurationMs, blobDurationMs]: the entry
\* of each work-item and the cumulative timings, reported only when ok
prepare_summary_table(f, cfPaths) ==
    LET Table(i) == read_table_summary(f, TablePaths(i).doneFile)
        List(i) == IF i.partNumber = 0
                   THEN read_table_index_file(f, TablePaths(i).idxListFile)
                   ELSE [ok |-> TRUE, indexArray |-> << >>]
        Indexes(i) == ReadIndexSummaries(f, cfPaths, List(i).indexArray)
        blobs == IF file_exists(f, cfPaths.done.blobs)
                 THEN read_blobs_summary(f, cfPaths.done.blobs)
                 ELSE [ok |-> TRUE, summary |-> NoBlobsSummary]
    IN IF /\ \A i \in WorkItems : Table(i).ok /\ List(i).ok /\ Indexes(i).ok
          /\ blobs.ok
       THEN [ok |-> TRUE,
             table |-> [ i \in WorkItems |->
                            [ oid |-> i.table.oid,
                              tableMs |-> Table(i).summary.durationMs,
                              indexCount |-> Len(List(i).indexArray),
                              indexMs |-> Indexes(i).durationMs ] ],
             tableDurationMs |->
                 SumDurations(WorkItems,
                              [ i \in WorkItems |->
                                   Table(i).summary.durationMs ]),
             indexDurationMs |->
                 SumDurations(WorkItems,
                              [ i \in WorkItems |-> Indexes(i).durationMs ]),
             blobDurationMs |-> blobs.summary.durationMs]
       ELSE [ok |-> FALSE, table |-> << >>, tableDurationMs |-> 0,
             indexDurationMs |-> 0, blobDurationMs |-> 0]

\* the number of lines a summary file of a ledger may hold; -1: no file
MissingFile == 0 - 1

TableLineCounts == {MissingFile, 7, 8}

IndexLineCounts == {MissingFile, 7, 8}

BlobsLineCounts == {MissingFile, 2, 3}

\* the done files of the indexes and constraints of the catalog, by oid
IndexDoneFileOids ==
    { ix.indexOid : ix \in SourceIndexes }
       \cup { ix.constraintOid : ix \in { x \in SourceIndexes :
                                             x.constraintOid # 0 } }

IndexDoneFile(oid) == Paths.idxdir \o << FormatU(oid) \o ".done" >>

\* the index list file of a table, as create_table_index_file writes it
RECURSIVE IndexListLines(_)
IndexListLines(indexes) ==
    IF indexes = << >> THEN << >>
    ELSE << FormatD(Head(indexes).indexOid),
            FormatD(Head(indexes).constraintOid) >>
            \o IndexListLines(Tail(indexes))

TableByOid(oid) == CHOOSE t \in SourceTables : t.oid = oid

\* the indexes of a table, in the order of the list table->firstIndex
RECURSIVE IndexList(_)
IndexList(S) ==
    IF S = {} THEN << >>
    ELSE LET x == CHOOSE y \in S : \A z \in S : y.indexOid <= z.indexOid
         IN <<x>> \o IndexList(S \ {x})

\* the file system f with the files of the function files, path -> contents
WithFiles(f, files) ==
    [f EXCEPT !.files =
        [p \in (DOMAIN f.files) \cup (DOMAIN files) |->
            IF p \in DOMAIN files THEN files[p] ELSE f.files[p]]]

\* the work directory of a run that has ended, with the summary files the
\* counts tell: whole, cut short or missing
SummaryLedger(tables, lists, indexes, blobs) ==
    LET base == copydb_init_workdir(EmptyFs, {}, 1, FALSE, FALSE, FALSE).fs
        tableFiles ==
            { <<TablePaths(i).doneFile,
                SubSeq(SummaryFileLines(i.table.oid), 1, tables[i])>> :
              i \in { x \in WorkItems : tables[x] # MissingFile } }
        listFiles ==
            { <<TablePaths([table |-> TableByOid(oid),
                            partNumber |-> 0]).idxListFile,
                IndexListLines(IndexList(IndexesOf(oid)))>> :
              oid \in { x \in TableOids : lists[x] } }
        indexFiles ==
            { <<IndexDoneFile(oid),
                SubSeq(SummaryFileLines(oid), 1, indexes[oid])>> :
              oid \in { x \in IndexDoneFileOids : indexes[x] # MissingFile } }
        blobsFiles ==
            IF blobs = MissingFile THEN {}
            ELSE { <<Paths.done.blobs, SubSeq(BlobsFileLines, 1, blobs)>> }
        all == tableFiles \cup listFiles \cup indexFiles \cup blobsFiles
    IN WithFiles(base, [ p \in { e[1] : e \in all } |->
                            (CHOOSE e \in all : e[1] = p)[2] ])

\* A run has ended and left its summary files.
SummaryFilesLeft ==
    /\ fs = EmptyFs
    /\ probe = NoProbe
    /\ \E tables \in [WorkItems -> TableLineCounts],
          lists \in [TableOids -> BOOLEAN],
          indexes \in [IndexDoneFileOids -> IndexLineCounts],
          blobs \in BlobsLineCounts :
             fs' = SummaryLedger(tables, lists, indexes, blobs)
    /\ UNCHANGED <<probe, baseVars, snapVars, streamVars>>

ReadTableSummary(i) ==
    /\ fs # EmptyFs
    /\ probe = NoProbe
    /\ probe' = [ fn |-> "read_table_summary",
                  filename |-> TablePaths(i).doneFile,
                  output |-> read_table_summary(fs, TablePaths(i).doneFile) ]
    /\ UNCHANGED <<fs, baseVars, snapVars, streamVars>>

ReadIndexSummary(oid) ==
    /\ fs # EmptyFs
    /\ probe = NoProbe
    /\ probe' = [ fn |-> "read_index_summary",
                  filename |-> IndexDoneFile(oid),
                  output |-> read_index_summary(fs, IndexDoneFile(oid)) ]
    /\ UNCHANGED <<fs, baseVars, snapVars, streamVars>>

ReadTableIndexFile(oid) ==
    /\ fs # EmptyFs
    /\ probe = NoProbe
    /\ LET filename == TablePaths([table |-> TableByOid(oid),
                                   partNumber |-> 0]).idxListFile
       IN probe' = [ fn |-> "read_table_index_file",
                     filename |-> filename,
                     output |-> read_table_index_file(fs, filename) ]
    /\ UNCHANGED <<fs, baseVars, snapVars, streamVars>>

ReadBlobsSummary ==
    /\ fs # EmptyFs
    /\ probe = NoProbe
    /\ probe' = [ fn |-> "read_blobs_summary",
                  filename |-> Paths.done.blobs,
                  output |-> read_blobs_summary(fs, Paths.done.blobs) ]
    /\ UNCHANGED <<fs, baseVars, snapVars, streamVars>>

PrepareSummaryTable ==
    /\ fs # EmptyFs
    /\ probe = NoProbe
    /\ probe' = [ fn |-> "prepare_summary_table",
                  filename |-> << >>,
                  output |-> prepare_summary_table(fs, Paths) ]
    /\ UNCHANGED <<fs, baseVars, snapVars, streamVars>>

NextSummary ==
    \/ SummaryFilesLeft
    \/ \E i \in WorkItems : ReadTableSummary(i)
    \/ \E oid \in IndexDoneFileOids : ReadIndexSummary(oid)
    \/ \E oid \in TableOids : ReadTableIndexFile(oid)
    \/ ReadBlobsSummary
    \/ PrepareSummaryTable

SpecSummary == Init /\ [][NextSummary]_vars

\* the file is missing, or has fewer lines than the count
ShortOrMissing(filename, count) ==
    file_exists(fs, filename) => Len(fs.files[filename]) < count

\* the file is there and has fewer lines than the count
Short(filename, count) ==
    file_exists(fs, filename) /\ Len(fs.files[filename]) < count

\* the indexes that the index list of a table in the work directory names
ListedIndexOids ==
    UNION { { ix.indexOid, ix.constraintOid } :
            ix \in { x \in SourceIndexes :
                       file_exists(fs,
                           TablePaths([table |-> TableByOid(x.tableOid),
                                       partNumber |-> 0]).idxListFile) } }

\* C30: read_table_summary and read_index_summary fail on a file of fewer
\* than 8 lines and read_blobs_summary on a file of fewer than 3 lines;
\* prepare_summary_table fails when the done file of
\* a work-item is missing or short, when the done file of an index or of a
\* constraint named in an index list is short, or when the blobs summary is
\* short.
C30_ShortSummaryFails ==
    /\ probe.fn \in {"read_table_summary", "read_index_summary"} =>
          (ShortOrMissing(probe.filename, COPY_TABLE_SUMMARY_LINES)
              => ~probe.output.ok)
    /\ probe.fn = "read_blobs_summary" =>
          (ShortOrMissing(probe.filename, COPY_BLOBS_SUMMARY_LINES)
              => ~probe.output.ok)
    /\ probe.fn = "prepare_summary_table" =>
          ((\/ \E i \in WorkItems :
                  ShortOrMissing(TablePaths(i).doneFile,
                                 COPY_TABLE_SUMMARY_LINES)
            \/ \E oid \in ListedIndexOids \ {0} :
                  Short(IndexDoneFile(oid), COPY_TABLE_SUMMARY_LINES)
            \/ Short(Paths.done.blobs, COPY_BLOBS_SUMMARY_LINES))
              => ~probe.output.ok)

\* every file is whole but the done file of one partition, which holds seven
\* lines: prepare_summary_table fails
C30_Witness ==
    /\ probe.fn = "prepare_summary_table"
    /\ ~probe.output.ok
    /\ \E i \in WorkItems :
          /\ i.partNumber = 1
          /\ file_exists(fs, TablePaths(i).doneFile)
          /\ Len(fs.files[TablePaths(i).doneFile]) = 7
          /\ \A j \in WorkItems \ {i} :
                /\ file_exists(fs, TablePaths(j).doneFile)
                /\ Len(fs.files[TablePaths(j).doneFile]) = 8
    /\ \A oid \in IndexDoneFileOids : ~Short(IndexDoneFile(oid), 8)
    /\ ~Short(Paths.done.blobs, 3)

-----------------------------------------------------------------------------
(* Logical replication stream: receive, transform, apply *)

\* lines of a JSON file: the metadata header of a message
JsonLine(action, xid, lsn) == [action |-> action, xid |-> xid, lsn |-> lsn]

\* the LSNs the sentinel's endpos may hold; InvalidXLogRecPtr: not set
EndPositions == {InvalidXLogRecPtr} \cup ((StartPos + 1) .. MaxLSN)

\* the file of the map files named by lsn, replaced or created
WithFile(files, lsn, file) ==
    [ l \in (DOMAIN files) \cup {lsn} |->
         IF l = lsn THEN file ELSE files[l] ]

\* the queue with the first LSN of a JSON file added at its end
stream_transform_add_file(queue, firstLSN) == Append(queue, firstLSN)

\* the SQL lines of a transaction
stream_write_begin(tx) ==
    [stmt |-> "BEGIN", xid |-> tx.xid, lsn |-> tx.beginLSN]

stream_write_commit(tx) == [stmt |-> "COMMIT", lsn |-> tx.commitLSN]

stream_write_transaction(tx) ==
    << stream_write_begin(tx), stream_write_commit(tx) >>

stream_write_switchwal(switchwal) ==
    [stmt |-> "SWITCH WAL", lsn |-> switchwal.lsn]

stream_write_keepalive(keepalive) ==
    [stmt |-> "KEEPALIVE", lsn |-> keepalive.lsn]

\* the SQL lines made of the lines of a JSON file: the transactions are put
\* together again, a transaction whose COMMIT is not in the file is left out
RECURSIVE stream_transform_file(_)
stream_transform_file(lines) ==
    IF lines = << >> THEN << >>
    ELSE LET m == Head(lines)
         IN IF m.action = "B"
            THEN IF Len(lines) >= 2 /\ lines[2].action = "C"
                 THEN stream_write_transaction(
                          [xid |-> m.xid, beginLSN |-> m.lsn,
                           commitLSN |-> lines[2].lsn])
                        \o stream_transform_file(SubSeq(lines, 3, Len(lines)))
                 ELSE << >>
            ELSE IF m.action = "X"
            THEN <<stream_write_switchwal(m)>>
                    \o stream_transform_file(Tail(lines))
            ELSE IF m.action = "K"
            THEN <<stream_write_keepalive(m)>>
                    \o stream_transform_file(Tail(lines))
            ELSE stream_transform_file(Tail(lines))

\* The sentinel is created, with the end position the user gives; receive
\* opens its first JSON file at the start position; the transform subprocess
\* and apply are ready to start.
StreamSetup(endpos) ==
    /\ streamContext.pc = "none"
    /\ sentinel' = [apply |-> FALSE, startpos |-> StartPos, endpos |-> endpos]
    /\ streamContext' = [pc |-> "streaming", firstLSN |-> StartPos,
                         lsn |-> StartPos, xid |-> 0]
    /\ jsonFiles' = WithFile(jsonFiles, StartPos,
                             [lines |-> << >>, closed |-> FALSE])
    /\ transformWorker' = [pc |-> "idle", firstLSN |-> InvalidXLogRecPtr]
    /\ applyContext' = [NoApplyContext EXCEPT !.pc = "down"]
    /\ UNCHANGED <<fs, baseVars, snapVars, probe, sqlFiles, transformQueue,
                   origin, applied, skipped>>

\* The user lets apply start.
SentinelApply ==
    /\ sentinel # NoSentinel
    /\ ~sentinel.apply
    /\ sentinel' = [sentinel EXCEPT !.apply = TRUE]
    /\ UNCHANGED <<fs, baseVars, snapVars, probe, jsonFiles, sqlFiles,
                   transformQueue, streamContext, transformWorker,
                   applyContext, origin, applied, skipped>>

\* the open JSON file with lines added at its end
streamWrite(files, firstLSN, lines) ==
    WithFile(files, firstLSN,
             [files[firstLSN] EXCEPT !.lines = @ \o lines])

\* receive is sent a transaction: its BEGIN and its COMMIT
ReceiveTransaction ==
    /\ streamContext.pc = "streaming"
    /\ streamContext.lsn + 2 <= MaxLSN
    /\ LET xid == streamContext.xid + 1
           lsn == streamContext.lsn
       IN /\ jsonFiles' = streamWrite(jsonFiles, streamContext.firstLSN,
                             << JsonLine("B", xid, lsn + 1),
                                JsonLine("C", xid, lsn + 2) >>)
          /\ streamContext' = [streamContext EXCEPT !.lsn = lsn + 2,
                                                    !.xid = xid]
    /\ UNCHANGED <<fs, baseVars, snapVars, probe, sentinel, sqlFiles,
                   transformQueue, transformWorker, applyContext, origin,
                   applied, skipped>>

\* receive is sent a keepalive, and records it as a marker line
ReceiveKeepalive ==
    /\ streamContext.pc = "streaming"
    /\ streamContext.lsn + 1 <= MaxLSN
    /\ LET lsn == streamContext.lsn + 1
       IN /\ jsonFiles' = streamWrite(jsonFiles, streamContext.firstLSN,
                                      << JsonLine("K", 0, lsn) >>)
          /\ streamContext' = [streamContext EXCEPT !.lsn = lsn]
    /\ UNCHANGED <<fs, baseVars, snapVars, probe, sentinel, sqlFiles,
                   transformQueue, transformWorker, applyContext, origin,
                   applied, skipped>>

\* the JSON files and the transform queue once the current file is closed
\* and renamed, and its name added to the queue
streamCloseFileEarly(files, queue, firstLSN) ==
    [files |-> files,
     queue |-> stream_transform_add_file(queue, firstLSN)]

streamCloseFile(files, queue, firstLSN) ==
    [files |-> WithFile(files, firstLSN,
                        [files[firstLSN] EXCEPT !.closed = TRUE]),
     queue |-> stream_transform_add_file(queue, firstLSN)]

\* receive sees a WAL switch: the current file is closed, renamed and
\* queued, and a new file is opened at the first LSN of the new segment
ReceiveSwitchWAL ==
    /\ streamContext.pc = "streaming"
    /\ streamContext.lsn + 1 <= MaxLSN
    /\ LET lsn == streamContext.lsn + 1
           written == streamWrite(jsonFiles, streamContext.firstLSN,
                                  << JsonLine("X", 0, lsn) >>)
           r == streamCloseFile(written, transformQueue,
                                streamContext.firstLSN)
       IN /\ jsonFiles' = WithFile(r.files, lsn,
                                   [lines |-> << >>, closed |-> FALSE])
          /\ transformQueue' = r.queue
          /\ streamContext' = [streamContext EXCEPT !.lsn = lsn,
                                                    !.firstLSN = lsn]
    /\ UNCHANGED <<fs, baseVars, snapVars, probe, sentinel, sqlFiles,
                   transformWorker, applyContext, origin, applied, skipped>>

\* the stream ends: the current file is closed, renamed and queued
ReceiveClose ==
    /\ streamContext.pc = "streaming"
    /\ LET r == streamCloseFile(jsonFiles, transformQueue,
                                streamContext.firstLSN)
       IN /\ jsonFiles' = r.files
          /\ transformQueue' = r.queue
    /\ streamContext' = [streamContext EXCEPT !.pc = "closed"]
    /\ UNCHANGED <<fs, baseVars, snapVars, probe, sentinel, sqlFiles,
                   transformWorker, applyContext, origin, applied, skipped>>

\* the transform subprocess takes the oldest name of its queue and writes
\* the SQL file of the JSON file of that name
TransformFile ==
    /\ transformWorker.pc = "idle"
    /\ transformQueue # << >>
    /\ LET firstLSN == Head(transformQueue)
       IN /\ firstLSN \in DOMAIN jsonFiles
          /\ sqlFiles' = WithFile(sqlFiles, firstLSN,
                 [lines |-> stream_transform_file(jsonFiles[firstLSN].lines),
                  renamed |-> FALSE])
          /\ transformWorker' = [pc |-> "written", firstLSN |-> firstLSN]
    /\ transformQueue' = Tail(transformQueue)
    /\ UNCHANGED <<fs, baseVars, snapVars, probe, sentinel, jsonFiles,
                   streamContext, applyContext, origin, applied, skipped>>

\* the transform subprocess renames the SQL file it has written to
\* <lsn>.sql
TransformRename ==
    /\ transformWorker.pc = "written"
    /\ sqlFiles' = WithFile(sqlFiles, transformWorker.firstLSN,
           [sqlFiles[transformWorker.firstLSN] EXCEPT !.renamed = TRUE])
    /\ transformWorker' = [pc |-> "idle", firstLSN |-> InvalidXLogRecPtr]
    /\ UNCHANGED <<fs, baseVars, snapVars, probe, sentinel, jsonFiles,
                   transformQueue, streamContext, applyContext, origin,
                   applied, skipped>>

\* what apply leaves alone
notApplyVars == <<fs, baseVars, snapVars, probe, sentinel, jsonFiles,
                  sqlFiles, transformQueue, streamContext, transformWorker>>

\* apply starts, or starts again: it binds the replication origin and reads
\* its LSN, and waits for the sentinel to allow apply
ApplyStart ==
    /\ applyContext.pc = "down"
    /\ applyContext.run < ApplyRuns
    /\ sentinel.apply
    /\ applyContext' = [pc |-> "open", previousLSN |-> origin,
                        endpos |-> sentinel.endpos, reachedEndPos |-> FALSE,
                        sqlFileName |-> sentinel.startpos, line |-> 1,
                        skip |-> FALSE, tx |-> 0,
                        run |-> applyContext.run + 1]
    /\ UNCHANGED <<notApplyVars, origin, applied, skipped>>

\* apply may open the SQL file of the name lsn
ApplyMayOpen(files, lsn) == lsn \in DOMAIN files /\ files[lsn].renamed

\* apply opens the SQL file it is to replay, once the file is there
ApplyOpenFile ==
    /\ applyContext.pc = "open"
    /\ ApplyMayOpen(sqlFiles, applyContext.sqlFileName)
    /\ applyContext' = [applyContext EXCEPT !.pc = "replay", !.line = 1]
    /\ UNCHANGED <<notApplyVars, origin, applied, skipped>>

\* apply is replaying, and the line it is to read next is there
ApplyHasLine ==
    /\ applyContext.pc = "replay"
    /\ applyContext.sqlFileName \in DOMAIN sqlFiles
    /\ applyContext.line <= Len(sqlFiles[applyContext.sqlFileName].lines)

ApplyLine == sqlFiles[applyContext.sqlFileName].lines[applyContext.line]

\* the LSN of the message has reached the end position
ReachedEndPosPast(context, lsn) ==
    /\ context.endpos # InvalidXLogRecPtr
    /\ context.endpos < lsn

ReachedEndPos(context, lsn) ==
    /\ context.endpos # InvalidXLogRecPtr
    /\ context.endpos <= lsn

\* the transaction of a BEGIN of that LSN has been applied already
SkipTransactionNever(context, lsn) == FALSE

SkipTransaction(context, lsn) == lsn <= context.previousLSN

\* the keepalive of that LSN lets the origin advance
KeepaliveAdvancesAlways(context, lsn) == TRUE

KeepaliveAdvances(context, lsn) == context.previousLSN < lsn

\* the next message has reached the end position: apply stops, and the
\* transaction it has open on the target, if any, is not committed
ApplyEndPos ==
    /\ ApplyHasLine
    /\ ReachedEndPos(applyContext, ApplyLine.lsn)
    /\ applyContext' = [applyContext EXCEPT !.pc = "done",
                                            !.reachedEndPos = TRUE,
                                            !.tx = 0]
    /\ UNCHANGED <<notApplyVars, origin, applied, skipped>>

\* BEGIN: apply opens a transaction on the target, or skips the
\* transaction when the origin is past it
ApplyBegin ==
    /\ ApplyHasLine
    /\ ApplyLine.stmt = "BEGIN"
    /\ ~ReachedEndPos(applyContext, ApplyLine.lsn)
    /\ IF SkipTransaction(applyContext, ApplyLine.lsn)
       THEN /\ applyContext' = [applyContext EXCEPT !.skip = TRUE,
                                                    !.line = @ + 1]
            /\ skipped' = skipped \cup { [run |-> applyContext.run,
                                          xid |-> ApplyLine.xid] }
       ELSE /\ applyContext' = [applyContext EXCEPT !.tx = ApplyLine.xid,
                                                    !.line = @ + 1]
            /\ UNCHANGED skipped
    /\ UNCHANGED <<notApplyVars, origin, applied>>

\* COMMIT: the transaction open on the target is committed, and the origin
\* advances to the LSN of the COMMIT in that commit
ApplyCommit ==
    /\ ApplyHasLine
    /\ ApplyLine.stmt = "COMMIT"
    /\ ~ReachedEndPos(applyContext, ApplyLine.lsn)
    /\ IF applyContext.skip
       THEN /\ applyContext' = [applyContext EXCEPT !.skip = FALSE,
                                                    !.line = @ + 1]
            /\ UNCHANGED <<origin, applied>>
       ELSE /\ applied' = Append(applied, applyContext.tx)
            /\ origin' = ApplyLine.lsn
            /\ applyContext' = [applyContext EXCEPT
                                   !.tx = 0,
                                   !.previousLSN = ApplyLine.lsn,
                                   !.line = @ + 1]
    /\ UNCHANGED <<notApplyVars, skipped>>

\* KEEPALIVE: the origin advances to the LSN of the marker
ApplyKeepalive ==
    /\ ApplyHasLine
    /\ ApplyLine.stmt = "KEEPALIVE"
    /\ ~ReachedEndPos(applyContext, ApplyLine.lsn)
    /\ IF KeepaliveAdvances(applyContext, ApplyLine.lsn)
       THEN /\ origin' = ApplyLine.lsn
            /\ applyContext' = [applyContext EXCEPT
                                   !.previousLSN = ApplyLine.lsn,
                                   !.line = @ + 1]
       ELSE /\ applyContext' = [applyContext EXCEPT !.line = @ + 1]
            /\ UNCHANGED origin
    /\ UNCHANGED <<notApplyVars, applied, skipped>>

\* SWITCH WAL: apply goes on with the file of the next segment
ApplySwitchWAL ==
    /\ ApplyHasLine
    /\ ApplyLine.stmt = "SWITCH WAL"
    /\ ~ReachedEndPos(applyContext, ApplyLine.lsn)
    /\ applyContext' = [applyContext EXCEPT !.pc = "open",
                                            !.sqlFileName = ApplyLine.lsn,
                                            !.line = 1]
    /\ UNCHANGED <<notApplyVars, origin, applied, skipped>>

\* apply crashes: the transaction it has open on the target is lost with
\* its session, the origin keeps the LSN it has recorded
ApplyCrash ==
    /\ applyContext.pc \in {"open", "replay"}
    /\ applyContext' = [NoApplyContext EXCEPT !.pc = "down",
                                              !.run = applyContext.run]
    /\ UNCHANGED <<notApplyVars, origin, applied, skipped>>

NextStream ==
    \/ \E endpos \in EndPositions : StreamSetup(endpos)
    \/ SentinelApply
    \/ ReceiveTransaction
    \/ ReceiveKeepalive
    \/ ReceiveSwitchWAL
    \/ ReceiveClose
    \/ TransformFile
    \/ TransformRename
    \/ ApplyStart
    \/ ApplyOpenFile
    \/ ApplyEndPos
    \/ ApplyBegin
    \/ ApplyCommit
    \/ ApplyKeepalive
    \/ ApplySwitchWAL
    \/ ApplyCrash

SpecStream == Init /\ [][NextStream]_vars

\* C26: the SQL file apply replays has been renamed to <lsn>.sql by
\* transform, which has then finished with it; every SQL file transform has
\* written, renamed or not, is that of a JSON file receive has closed, and
\* holds the lines of the whole of that JSON file.
C26_PipelineOrder ==
    /\ applyContext.pc = "replay" =>
          /\ applyContext.sqlFileName \in DOMAIN sqlFiles
          /\ sqlFiles[applyContext.sqlFileName].renamed
          /\ transformWorker.firstLSN # applyContext.sqlFileName
    /\ \A lsn \in DOMAIN sqlFiles :
          /\ lsn \in DOMAIN jsonFiles
          /\ jsonFiles[lsn].closed
          /\ sqlFiles[lsn].lines = stream_transform_file(jsonFiles[lsn].lines)

\* apply replays the file of the second segment, past its first line, while
\* receive is still writing to the JSON file of a later segment
C26_Witness ==
    /\ applyContext.pc = "replay"
    /\ applyContext.sqlFileName > StartPos
    /\ applyContext.line > 1
    /\ streamContext.pc = "streaming"
    /\ streamContext.firstLSN > applyContext.sqlFileName
    /\ jsonFiles[streamContext.firstLSN].lines # << >>

\* the step commits on the target the transaction apply has open, and the
\* origin records the LSN of its COMMIT
CommitsWithOrigin ==
    /\ ApplyHasLine
    /\ ApplyLine.stmt = "COMMIT"
    /\ applyContext.tx # 0
    /\ applied' = Append(applied, applyContext.tx)
    /\ origin' = ApplyLine.lsn

\* the step reads a KEEPALIVE marker: the origin records the LSN of the
\* marker and nothing is committed to the tables of the target
KeepaliveWithOrigin ==
    /\ ApplyHasLine
    /\ ApplyLine.stmt = "KEEPALIVE"
    /\ applied' = applied
    /\ origin' = ApplyLine.lsn

\* C27 as stated: the LSN the origin records never decreases, and it changes
\* only in the step that commits the target transaction whose COMMIT LSN it
\* then records.
C27_OriginOnlyWithCommit ==
    [][/\ origin' >= origin
       /\ origin' # origin => CommitsWithOrigin]_vars

\* C27, amended: the LSN the origin records never decreases, over the steps
\* of apply, its crashes and its restarts; it changes only in the step that
\* commits the target transaction whose COMMIT LSN it then records, or in
\* the step that reads a KEEPALIVE marker, whose LSN it then records; and
\* no transaction is committed on the target without the origin recording
\* the LSN of its COMMIT in the same step.
C27_OriginAdvance ==
    [][/\ origin' >= origin
       /\ origin' # origin => (CommitsWithOrigin \/ KeepaliveWithOrigin)
       /\ applied' # applied => (CommitsWithOrigin /\ origin' > origin)]_vars

\* apply has been started a second time, after a crash, and reads on from
\* an origin that a first run has advanced with a commit
C27_Witness ==
    /\ applyContext.run = 2
    /\ applyContext.pc = "replay"
    /\ Len(applied) >= 1
    /\ origin > StartPos
    /\ applyContext.previousLSN = origin

\* the lines of the JSON files whose first LSN is in S, in the order of
\* their LSNs
RECURSIVE LinesOfFiles(_)
LinesOfFiles(S) ==
    IF S = {} THEN << >>
    ELSE LET first == CHOOSE l \in S : \A k \in S : l <= k
         IN jsonFiles[first].lines \o LinesOfFiles(S \ {first})

\* what receive has been sent so far
ReceivedLines == LinesOfFiles(DOMAIN jsonFiles)

\* the xids of the sequence of lines, in order
RECURSIVE XidsOf(_)
XidsOf(lines) ==
    IF lines = << >> THEN << >>
    ELSE <<Head(lines).xid>> \o XidsOf(Tail(lines))

IsCommitUpTo(m, lsn) == m.action = "C" /\ m.lsn <= lsn

\* the transactions of the source whose COMMIT LSN is at or below lsn, in
\* the order of their commits: what one complete replay up to lsn applies
CommittedUpTo(lsn) ==
    LET Test(m) == IsCommitUpTo(m, lsn)
    IN XidsOf(SelectSeq(ReceivedLines, Test))

\* C28: whatever the point where an earlier replay has stopped, a replay
\* commits no transaction whose COMMIT LSN is at or below the LSN the origin
\* records, and the target holds, once each and in the order of their
\* commits, the transactions of the source whose COMMIT LSN is at or below
\* the LSN of the origin: the state one complete replay up to that LSN
\* leaves.
C28_ReplayIdempotent ==
    /\ [](applied = CommittedUpTo(origin))
    /\ [][applied' # applied =>
             /\ ApplyLine.lsn > origin
             /\ applied' = CommittedUpTo(ApplyLine.lsn)]_vars

\* the first replay has crashed after it had committed a transaction; the
\* second replay of the file has skipped that transaction, has committed a
\* later one, and is at the end of the file
C28_Witness ==
    /\ applyContext.run = 2
    /\ applyContext.pc = "replay"
    /\ applyContext.sqlFileName = StartPos
    /\ applyContext.line > Len(sqlFiles[StartPos].lines)
    /\ \E x \in skipped : x.run = 2
    /\ Len(applied) > Cardinality({ x \in skipped : x.run = 2 })
    /\ applied = CommittedUpTo(MaxLSN)

\* the COMMIT lines receive has been sent
ReceivedCommits ==
    { ReceivedLines[i] : i \in { j \in DOMAIN ReceivedLines :
                                    ReceivedLines[j].action = "C" } }

\* C29: with an end position in the sentinel, apply commits no transaction
\* whose COMMIT LSN is at or past the end position; once it reports
\* reachedEndPos it has stopped, has no transaction open on the target,
\* has read a message whose LSN is at or past the end position, and the
\* target holds every transaction whose COMMIT LSN is below the end
\* position and no other; and apply stops for no other reason.
C29_StopsAtEndPos ==
    /\ [](/\ applyContext.endpos # InvalidXLogRecPtr =>
               \A m \in ReceivedCommits :
                  (\E i \in DOMAIN applied : applied[i] = m.xid)
                     => m.lsn < applyContext.endpos
          /\ applyContext.reachedEndPos =>
                /\ applyContext.pc = "done"
                /\ applyContext.endpos = sentinel.endpos
                /\ applyContext.endpos # InvalidXLogRecPtr
                /\ applyContext.tx = 0
                /\ ApplyLine.lsn >= applyContext.endpos
                /\ applied = CommittedUpTo(applyContext.endpos - 1)
                /\ origin < applyContext.endpos
          /\ applyContext.pc = "done" => applyContext.reachedEndPos)
    /\ [][applyContext.reachedEndPos =>
             UNCHANGED <<applyContext, applied, origin>>]_vars

\* apply has reported reachedEndPos at the COMMIT of a transaction whose
\* COMMIT LSN is the end position, after it had opened that transaction on
\* the target and had committed an earlier one
C29_Witness ==
    /\ applyContext.reachedEndPos
    /\ applyContext.pc = "done"
    /\ ApplyLine.stmt = "COMMIT"
    /\ ApplyLine.lsn = applyContext.endpos
    /\ Len(applied) >= 1
    /\ \E m \in ReceivedCommits :
          /\ m.lsn = applyContext.endpos
          /\ \A i \in DOMAIN applied : applied[i] # m.xid

\* the done files of the indexes and constraints that the index list of the
\* table oid names, those with no constraint (oid 0) left out
ListedDoneFileOids(oid) ==
    IF file_exists(fs, TablePaths([table |-> TableByOid(oid),
                                   partNumber |-> 0]).idxListFile)
    THEN UNION { { ix.indexOid, ix.constraintOid } : ix \in IndexesOf(oid) }
            \ {0}
    ELSE {}

\* the files prepare_summary_table reads are whole: the done file of every
\* work-item, and those of the done files of listed indexes and constraints
\* and the blobs summary that exist
SummaryFilesWhole ==
    /\ \A i \in WorkItems :
          ~ShortOrMissing(TablePaths(i).doneFile, COPY_TABLE_SUMMARY_LINES)
    /\ \A oid \in ListedIndexOids \ {0} :
          ~Short(IndexDoneFile(oid), COPY_TABLE_SUMMARY_LINES)
    /\ ~Short(Paths.done.blobs, COPY_BLOBS_SUMMARY_LINES)

\* C31: read_table_index_file of an index list file that does not exist
\* succeeds with an empty list; prepare_summary_table succeeds when the files
\* it reads are whole, whichever done files of listed indexes and
\* constraints are missing, and the index duration of a table is the sum of
\* the durations of the done files that exist: a missing one adds nothing.
C31_MissingOptionalFiles ==
    /\ (/\ probe.fn = "read_table_index_file"
        /\ ~file_exists(fs, probe.filename))
          => /\ probe.output.ok
             /\ probe.output.indexArray = << >>
    /\ (probe.fn = "prepare_summary_table" /\ SummaryFilesWhole)
          => /\ probe.output.ok
             /\ \A i \in WorkItems :
                   i.partNumber = 0 =>
                      probe.output.table[i].indexMs =
                         7 * Cardinality(
                                { oid \in ListedDoneFileOids(i.table.oid) :
                                     file_exists(fs, IndexDoneFile(oid)) })

\* the summary is prepared with the index list of the table 16385 in place,
\* the done file of its index there and the done file of its constraint
\* missing; the index list of the table 16384 is missing
C31_Witness ==
    /\ probe.fn = "prepare_summary_table"
    /\ probe.output.ok
    /\ ListedDoneFileOids(16385) = {16391, 16392}
    /\ file_exists(fs, IndexDoneFile(16391))
    /\ ~file_exists(fs, IndexDoneFile(16392))
    /\ ListedDoneFileOids(16384) = {}
    /\ probe.output.table[[table |-> TableByOid(16385),
                           partNumber |-> 0]].indexMs = 7

-----------------------------------------------------------------------------
(* copydb_init_specs: the options of the CopyDataSpec *)

\* the values of CopyDataSection that --section gives
DataSections ==
    {"DATA_SECTION_ALL", "DATA_SECTION_PRE_DATA", "DATA_SECTION_TABLE_DATA",
     "DATA_SECTION_POST_DATA"}

\* the calls of copydb_init_specs that may fail
InitSpecsFailPoints ==
    {"none", "copydb_prepare_dump_paths", "semaphore_create table",
     "semaphore_create index", "queue_create vacuum", "queue_create index"}

\* the CopyDataSpec keeps the value of --skip-blobs whatever the section
copydb_init_specs_keeps_skip(section, skipLargeObjects, tableJobs, indexJobs, fail) ==
    [ ok |-> TRUE,
      specs |-> [ section |-> section,
                  skipLargeObjects |-> skipLargeObjects,
                  tableJobs |-> tableJobs,
                  indexJobs |-> indexJobs,
                  vacuumJobs |-> tableJobs,
                  tableSemaphore |-> TableSemaphoreInitValue,
                  indexSemaphore |-> 1,
                  queues |-> section \in {"DATA_SECTION_ALL",
                                          "DATA_SECTION_TABLE_DATA"} ] ]

\* copydb_init_specs, for the options it sets: the structure is filled from
\* the arguments, then the semaphores and the queues are created, then
\* skipLargeObjects is set when the section is not all.  fail is the call
\* that fails; a semaphore that is not created is 0.  The result is
\* [ok, specs].
copydb_init_specs_options(section, skipLargeObjects, tableJobs, indexJobs, fail) ==
    LET withQueues == section \in {"DATA_SECTION_ALL",
                                   "DATA_SECTION_TABLE_DATA"}
        tmpCopySpecs ==
            [ section |-> section,
              skipLargeObjects |-> skipLargeObjects,
              tableJobs |-> tableJobs,
              indexJobs |-> indexJobs,
              vacuumJobs |-> tableJobs,
              tableSemaphore |-> 0,
              indexSemaphore |-> 0,
              queues |-> FALSE ]
        s1 == [tmpCopySpecs EXCEPT !.tableSemaphore = TableSemaphoreInitValue]
        s2 == [s1 EXCEPT !.indexSemaphore = 1]
        s3 == [s2 EXCEPT !.queues = withQueues]
    IN IF fail = "copydb_prepare_dump_paths"
       THEN [ok |-> FALSE, specs |-> tmpCopySpecs]
       ELSE IF fail = "semaphore_create table"
       THEN [ok |-> FALSE, specs |-> tmpCopySpecs]
       ELSE IF fail = "semaphore_create index"
       THEN [ok |-> FALSE, specs |-> s1]
       ELSE IF withQueues /\ fail \in {"queue_create vacuum",
                                       "queue_create index"}
       THEN [ok |-> FALSE, specs |-> s2]
       ELSE [ok |-> TRUE,
             specs |-> [s3 EXCEPT !.skipLargeObjects =
                                     IF section # "DATA_SECTION_ALL"
                                     THEN TRUE ELSE @]]

\* a command calls copydb_init_specs with its options
InitSpecs(section, skipLargeObjects, tableJobs, indexJobs, fail) ==
    /\ fs = EmptyFs
    /\ probe = NoProbe
    /\ probe' = [ fn |-> "copydb_init_specs",
                  input |-> [ section |-> section,
                              skipLargeObjects |-> skipLargeObjects,
                              tableJobs |-> tableJobs,
                              indexJobs |-> indexJobs,
                              fail |-> fail ],
                  output |-> copydb_init_specs_options(
                                 section, skipLargeObjects, tableJobs,
                                 indexJobs, fail) ]
    /\ UNCHANGED <<fs, baseVars, snapVars, streamVars>>

NextInitSpecs ==
    \E section \in DataSections, skipLargeObjects \in BOOLEAN,
       tableJobs \in 1 .. TableJobs, indexJobs \in 1 .. IndexJobs,
       fail \in InitSpecsFailPoints :
          InitSpecs(section, skipLargeObjects, tableJobs, indexJobs, fail)

SpecInitSpecs == Init /\ [][NextInitSpecs]_vars

\* C32: when copydb_init_specs has succeeded, skipLargeObjects is true for
\* every section other than all, whatever the caller passed, and is the
\* value the caller passed for the section all.
C32_SkipLargeObjectsUnlessAll ==
    (probe.fn = "copydb_init_specs" /\ probe.output.ok) =>
       probe.output.specs.skipLargeObjects =
          (IF probe.input.section = "DATA_SECTION_ALL"
           THEN probe.input.skipLargeObjects
           ELSE TRUE)

\* the caller asks for the large objects in the section table-data, and the
\* call succeeds with skipLargeObjects set
C32_Witness ==
    /\ probe.fn = "copydb_init_specs"
    /\ probe.output.ok
    /\ probe.input.section = "DATA_SECTION_TABLE_DATA"
    /\ ~probe.input.skipLargeObjects
    /\ probe.output.specs.skipLargeObjects

\* ---------------------------------------------------------------------
\* The summary files, written and read back
\* ---------------------------------------------------------------------

\* A line break.  A string of the program is held as the sequence of its
\* pieces, each one a line break or a run of characters without one.
LF == "\n"

\* the namespaces, names and commands studied: empty, one run of characters,
\* and one with a line break in it
SummaryStrings == { << >>, << "public" >>, << "pub", LF, "lic" >> }

\* the characters of a string, its pieces one after the other
RECURSIVE CString(_)
CString(pieces) ==
    IF pieces = << >> THEN "" ELSE Head(pieces) \o CString(Tail(pieces))

HasLineBreak(pieces) == \E k \in 1 .. Len(pieces) : pieces[k] = LF

\* write_table_summary, its oid printed with "%d"
sformat_table_summary_signed_oid(summary) ==
    << FormatD(summary.pid), LF, FormatD(summary.oid), LF >>
    \o summary.nspname \o << LF >> \o summary.relname
    \o << LF, ToString(summary.startTime), LF, ToString(summary.doneTime), LF,
          ToString(summary.durationMs), LF >>
    \o summary.command \o << LF >>

\* the contents write_table_summary formats:
\* "%d\n%u\n%s\n%s\n%lld\n%lld\n%lld\n%s\n"
sformat_table_summary(summary) ==
    << FormatD(summary.pid), LF, FormatU(summary.oid), LF >>
    \o summary.nspname \o << LF >> \o summary.relname
    \o << LF, ToString(summary.startTime), LF, ToString(summary.doneTime), LF,
          ToString(summary.durationMs), LF >>
    \o summary.command \o << LF >>

\* the lines of a file: its contents cut at each line break; line holds the
\* pieces read since the last line break
RECURSIVE FileLines(_, _)
FileLines(contents, line) ==
    IF contents = << >>
    THEN IF line = << >> THEN << >> ELSE << CString(line) >>
    ELSE IF Head(contents) = LF
    THEN << CString(line) >> \o FileLines(Tail(contents), << >>)
    ELSE FileLines(Tail(contents), Append(line, Head(contents)))

\* the number of line breaks of the contents
RECURSIVE LineBreaks(_)
LineBreaks(contents) ==
    IF contents = << >> THEN 0
    ELSE (IF Head(contents) = LF THEN 1 ELSE 0) + LineBreaks(Tail(contents))

\* the summaries of the tables written: the oid over the uint32_t domain
TableSummaries ==
    [ pid : {4242}, oid : {16384, 2147483647, (0 - 2147483647) - 1, 0 - 1},
      nspname : SummaryStrings, relname : SummaryStrings,
      startTime : {10}, doneTime : {17}, durationMs : {7},
      command : SummaryStrings ]

SummaryWriters == {"open_table_summary", "finish_table_summary"}

\* open_table_summary writes the lock file, with no done time and no
\* duration yet; finish_table_summary writes the done file
WriteTableSummary ==
    /\ fs = EmptyFs
    /\ probe = NoProbe
    /\ \E summary \in TableSummaries, fn \in SummaryWriters :
          LET base == copydb_init_workdir(EmptyFs, {}, 1, FALSE, FALSE,
                                          FALSE).fs
              tablePaths == copydb_init_tablepaths(Paths, 16384)
              filename == IF fn = "open_table_summary"
                          THEN tablePaths.lockFile ELSE tablePaths.doneFile
              written == IF fn = "open_table_summary"
                         THEN [summary EXCEPT !.doneTime = 0,
                                              !.durationMs = 0]
                         ELSE summary
              contents == sformat_table_summary(written)
          IN /\ fs' = write_file(base, filename, FileLines(contents, << >>))
             /\ probe' = [ fn |-> fn, filename |-> filename,
                           input |-> written, contents |-> contents ]
    /\ UNCHANGED <<baseVars, snapVars, streamVars>>

ReadTableSummaryBack ==
    /\ probe.fn \in SummaryWriters
    /\ probe' = [ fn |-> "read_table_summary", filename |-> probe.filename,
                  input |-> probe.input, contents |-> probe.contents,
                  output |-> read_table_summary(fs, probe.filename) ]
    /\ UNCHANGED <<fs, baseVars, snapVars, streamVars>>

\* the index lists written: up to IndexListLen indexes, the oids of the
\* indexes and of their constraints over the uint32_t domain, the
\* constraint oid 0 when the index has none
IndexListLen == 2

IndexListOids ==
    [ indexOid : {16390, 2147483647, (0 - 2147483647) - 1},
      constraintOid : {0, 16392, 0 - 1} ]

IndexLists ==
    UNION { [1 .. n -> IndexListOids] : n \in 0 .. IndexListLen }

\* create_table_index_file writes the two oids of each index of the list,
\* one per line, each with "%d\n"
CreateTableIndexFile ==
    /\ fs = EmptyFs
    /\ probe = NoProbe
    /\ \E indexes \in IndexLists :
          LET base == copydb_init_workdir(EmptyFs, {}, 1, FALSE, FALSE,
                                          FALSE).fs
              filename == TablePaths([table |-> TableByOid(16384),
                                      partNumber |-> 0]).idxListFile
          IN /\ fs' = write_file(base, filename, IndexListLines(indexes))
             /\ probe' = [ fn |-> "create_table_index_file",
                           filename |-> filename, input |-> indexes ]
    /\ UNCHANGED <<baseVars, snapVars, streamVars>>

ReadTableIndexFileBack ==
    /\ probe.fn = "create_table_index_file"
    /\ probe' = [ fn |-> "read_table_index_file", filename |-> probe.filename,
                  input |-> probe.input,
                  output |-> read_table_index_file(fs, probe.filename) ]
    /\ UNCHANGED <<fs, baseVars, snapVars, streamVars>>

NextRoundTrip ==
    \/ WriteTableSummary
    \/ ReadTableSummaryBack
    \/ CreateTableIndexFile
    \/ ReadTableIndexFileBack

SpecRoundTrip == Init /\ [][NextRoundTrip]_vars

SummaryReadBack ==
    /\ probe.fn = "read_table_summary"
    /\ "input" \in DOMAIN probe

SingleLineFields(summary) ==
    /\ ~HasLineBreak(summary.nspname)
    /\ ~HasLineBreak(summary.relname)
    /\ ~HasLineBreak(summary.command)

\* C33: a table summary whose namespace, name and command hold no line break
\* is written as exactly eight lines, each ended by a line break, and reading
\* the file back succeeds and returns the pid, oid, namespace, name, start
\* time, done time, duration and command that were written, for the lock file
\* open_table_summary writes and for the done file finish_table_summary writes.
C33_TableSummaryRoundTrip ==
    (SummaryReadBack /\ SingleLineFields(probe.input)) =>
        /\ LineBreaks(probe.contents) = 8
        /\ probe.contents[Len(probe.contents)] = LF
        /\ Len(fs.files[probe.filename]) = 8
        /\ probe.output.ok
        /\ probe.output.summary =
              [ pid |-> probe.input.pid, oid |-> probe.input.oid,
                nspname |-> CString(probe.input.nspname),
                relname |-> CString(probe.input.relname),
                startTime |-> probe.input.startTime,
                doneTime |-> probe.input.doneTime,
                durationMs |-> probe.input.durationMs,
                command |-> CString(probe.input.command) ]

\* a lock file was read back whole, its oid above 2^31 - 1 and its
\* namespace empty
C33_Witness ==
    /\ SummaryReadBack
    /\ SingleLineFields(probe.input)
    /\ probe.input.oid < 0
    /\ probe.input.nspname = << >>
    /\ probe.input.doneTime = 0
    /\ probe.output.ok

\* C34: reading back the index list create_table_index_file wrote succeeds
\* and returns as many entries as were written, with the same index and
\* constraint oids, in the same order, for oids over the whole uint32_t
\* domain.
C34_IndexListRoundTrip ==
    (probe.fn = "read_table_index_file" /\ "input" \in DOMAIN probe) =>
        /\ probe.output.ok
        /\ probe.output.indexArray = probe.input

\* ---------------------------------------------------------------------
\* The lock file and the done file of a work-item
\* ---------------------------------------------------------------------

\* the oids the paths are computed for, over the uint32_t domain: small
\* ones, those of the catalog, 2^31 - 1, 2^31, 2^32 - 16384 and 2^32 - 1
PathOids ==
    {1, 11, 16384, 16385, 2147483647, (0 - 2147483647) - 1, 0 - 16384, 0 - 1}

\* the tables of those oids, copied as a whole or split in PartCount parts
PathTables == [ oid : PathOids, partsCount : {0, PartCount} ]

PathItems ==
    UNION { { [table |-> t, partNumber |-> n] : n \in PartNumbers(t) } :
            t \in PathTables }

\* the path with the suffix added to its file name
WithSuffix(path, suffix) == [path EXCEPT ![Len(path)] = @ \o suffix]

InitTablePaths(oid) ==
    /\ fs = EmptyFs
    /\ probe = NoProbe
    /\ probe' = [ fn |-> "copydb_init_tablepaths", oid |-> oid,
                  output |-> copydb_init_tablepaths(Paths, oid) ]
    /\ UNCHANGED <<fs, baseVars, snapVars, streamVars>>

InitTablePathsForPart(oid, partNumber) ==
    /\ fs = EmptyFs
    /\ probe = NoProbe
    /\ probe' = [ fn |-> "copydb_init_tablepaths_for_part", oid |-> oid,
                  partNumber |-> partNumber,
                  output |-> copydb_init_tablepaths_for_part(Paths, oid,
                                                             partNumber) ]
    /\ UNCHANGED <<fs, baseVars, snapVars, streamVars>>

\* the paths of two work-items of one catalog, where a table is either
\* copied as a whole or split
InitTableSpecs(a, b) ==
    /\ fs = EmptyFs
    /\ probe = NoProbe
    /\ a # b
    /\ a.table.oid = b.table.oid => a.table = b.table
    /\ probe' = [ fn |-> "copydb_init_table_specs", items |-> <<a, b>>,
                  output |-> << copydb_init_table_specs(Paths, a.table,
                                                        a.partNumber),
                                copydb_init_table_specs(Paths, b.table,
                                                        b.partNumber) >> ]
    /\ UNCHANGED <<fs, baseVars, snapVars, streamVars>>

NextTablePaths ==
    \/ \E oid \in PathOids : InitTablePaths(oid)
    \/ \E oid \in PathOids, partNumber \in 0 .. (PartCount - 1) :
          InitTablePathsForPart(oid, partNumber)
    \/ \E a \in PathItems, b \in PathItems : InitTableSpecs(a, b)

SpecTablePaths == Init /\ [][NextTablePaths]_vars

WorkItemFiles(tablePaths) == {tablePaths.lockFile, tablePaths.doneFile}

\* C40: two distinct work-items have distinct lock files and distinct done
\* files, the lock or done file of one is never the lock or done file of the
\* other, and none of them is a top-level done marker, for oids over the
\* whole uint32_t domain.
C40_WorkItemFilesDistinct ==
    probe.fn = "copydb_init_table_specs" =>
        /\ probe.output[1].lockFile # probe.output[2].lockFile
        /\ probe.output[1].doneFile # probe.output[2].doneFile
        /\ WorkItemFiles(probe.output[1]) \cap WorkItemFiles(probe.output[2])
              = {}
        /\ (WorkItemFiles(probe.output[1]) \cup WorkItemFiles(probe.output[2]))
              \cap DoneMarkers = {}

\* two partitions of the table of oid 2^32 - 1
C40_Witness ==
    /\ probe.fn = "copydb_init_table_specs"
    /\ probe.items[1].table.oid = 0 - 1
    /\ probe.items[2].table.oid = 0 - 1
    /\ probe.items[1].partNumber # probe.items[2].partNumber

\* ---------------------------------------------------------------------
\* prepare_summary_table: the cumulative timings
\* ---------------------------------------------------------------------

\* the work-items of the tables copied in partitions
PartitionItems == { i \in WorkItems : i.table.partsCount >= 1 }

\* the done files of indexes and constraints that exist, among those the
\* index lists in place name
ListedDoneFiles ==
    { oid \in UNION { ListedDoneFileOids(t) : t \in TableOids } :
         file_exists(fs, IndexDoneFile(oid)) }

\* C36: when prepare_summary_table succeeds, the cumulative table duration is
\* the sum of the durations of the done files of all the work-items, every
\* partition of a table copied in partitions included; the index list of a
\* table is read for exactly one of its work-items; and the cumulative index
\* duration counts the done file of each listed index and constraint once.
C36_CumulativeDurations ==
    (probe.fn = "prepare_summary_table" /\ probe.output.ok) =>
        /\ probe.output.tableDurationMs = 7 * Cardinality(WorkItems)
        /\ \A i \in PartitionItems : probe.output.table[i].tableMs = 7
        /\ \A t \in SourceTables :
              file_exists(fs, TablePaths([table |-> t,
                                          partNumber |-> 0]).idxListFile)
                 => Cardinality({ i \in WorkItems :
                                     /\ i.table = t
                                     /\ probe.output.table[i].indexCount > 0 })
                       = 1
        /\ probe.output.indexDurationMs = 7 * Cardinality(ListedDoneFiles)

\* the summary of a table copied in PartCount partitions, its index list in
\* place with the done files of its index and of its constraint
C36_Witness ==
    /\ probe.fn = "prepare_summary_table"
    /\ probe.output.ok
    /\ Cardinality(PartitionItems) = PartCount
    /\ ListedDoneFileOids(16385) = {16391, 16392}
    /\ ListedDoneFiles = {16391, 16392}
    /\ probe.output.indexDurationMs = 14

\* ---------------------------------------------------------------------
\* copydb_close_snapshot, from every state of the snapshot
\* ---------------------------------------------------------------------

\* A process reaches copydb_close_snapshot with the snapshot as
\* copydb_prepare_snapshot left it, in the parent, or as copydb_set_snapshot
\* left it, in a worker, whether that call succeeded or failed.
ParentOpensSnapshot(snapshot, consistent, fail) ==
    /\ fs = EmptyFs
    /\ probe = NoProbe
    /\ LET base == copydb_init_workdir(EmptyFs, {}, 1, FALSE, FALSE, FALSE).fs
           r == copydb_prepare_snapshot(copydb_init_specs(snapshot, consistent),
                                        base, ExportedSnapshot(1), fail)
       IN /\ fs' = r.fs
          /\ copySpecs' = r.specs
          /\ probe' = [ fn |-> "copydb_prepare_snapshot", ok |-> r.ok,
                        opened |-> [ snapshot |-> snapshot,
                                     consistent |-> consistent,
                                     fail |-> fail ] ]
    /\ UNCHANGED <<snapshotArg, snpc, snrun, sw, imports, baseVars,
                   streamVars>>

WorkerOpensSnapshot(consistent, fail) ==
    /\ fs = EmptyFs
    /\ probe = NoProbe
    /\ LET base == copydb_init_workdir(EmptyFs, {}, 1, FALSE, FALSE, FALSE).fs
           r == copydb_set_snapshot(
                    copydb_init_specs(IF consistent THEN GivenSnapshot ELSE "",
                                      consistent),
                    fail)
       IN /\ fs' = base
          /\ copySpecs' = r.specs
          /\ probe' = [ fn |-> "copydb_set_snapshot", ok |-> r.ok,
                        opened |-> [ snapshot |-> r.specs.sourceSnapshot.snapshot,
                                     consistent |-> consistent,
                                     fail |-> fail ] ]
    /\ UNCHANGED <<snapshotArg, snpc, snrun, sw, imports, baseVars,
                   streamVars>>

\* copydb_close_snapshot is called, a first time or again; before and after
\* are the snapshot before and after the call, opened how the process had
\* opened it
CloseSnapshot(fail) ==
    /\ probe # NoProbe
    /\ LET r == copydb_close_snapshot(copySpecs, fail)
       IN /\ copySpecs' = r.specs
          /\ probe' = [ fn |-> "copydb_close_snapshot", ok |-> r.ok,
                        opened |-> probe.opened,
                        before |-> copySpecs.sourceSnapshot,
                        after |-> r.specs.sourceSnapshot ]
    /\ UNCHANGED <<fs, snapshotArg, snpc, snrun, sw, imports, baseVars,
                   streamVars>>

NextCloseSnapshot ==
    \/ \E snapshot \in SnapshotArgs, consistent \in BOOLEAN,
          fail \in FailPoints :
             ParentOpensSnapshot(snapshot, consistent, fail)
    \/ \E consistent \in BOOLEAN, fail \in FailPoints :
          WorkerOpensSnapshot(consistent, fail)
    \/ \E fail \in {"none", "pgsql_commit"} : CloseSnapshot(fail)

SpecCloseSnapshot == Init /\ [][NextCloseSnapshot]_vars

\* the call has committed the transaction
CloseCommitted ==
    /\ probe.after.pgsql.st = "committed"
    /\ probe.before.pgsql.st # "committed"

\* C37: copydb_close_snapshot commits only from the states SET, EXPORTED and
\* NOT_CONSISTENT; when it succeeds the state is CLOSED; from CLOSED or SKIPPED
\* it commits nothing and succeeds; when the commit fails it returns failure
\* and leaves the snapshot as it was; and the state is never CLOSED with the
\* transaction still open.
C37_CloseSnapshot ==
    /\ probe.fn = "copydb_close_snapshot" =>
          /\ CloseCommitted =>
                probe.before.state \in {"SET", "EXPORTED", "NOT_CONSISTENT"}
          /\ probe.ok => probe.after.state = "CLOSED"
          /\ probe.before.state \in {"CLOSED", "SKIPPED"} =>
                /\ probe.ok
                /\ probe.after.pgsql = probe.before.pgsql
          /\ ~probe.ok =>
                /\ probe.after = probe.before
                /\ probe.before.state
                      \in {"SET", "EXPORTED", "NOT_CONSISTENT"}
    /\ copySpecs.sourceSnapshot.state = "CLOSED" =>
          copySpecs.sourceSnapshot.pgsql.st # "open"

\* a commit failed in the state EXPORTED, which the call left there with the
\* transaction open
C37_Witness ==
    /\ probe.fn = "copydb_close_snapshot"
    /\ ~probe.ok
    /\ copySpecs.sourceSnapshot.state = "EXPORTED"
    /\ copySpecs.sourceSnapshot.pgsql.st = "open"

\* ---------------------------------------------------------------------
\* copydb_init_workdir: what a call leaves behind
\* ---------------------------------------------------------------------

\* C38: whenever copydb_init_workdir returns success, whatever the work
\* directory held and whatever the flags, the pidfile holds the pid of the
\* caller and the schema, run, run/tables, run/indexes and cdc directories
\* exist.
C38_SuccessLeavesWorkdirReady ==
    (CallPending /\ call.outcome = "ok") =>
        /\ file_exists(fs, CallPaths.pidfile)
        /\ fs.files[CallPaths.pidfile] = call.pid
        /\ directory_exists(fs, CallPaths.schemadir)
        /\ directory_exists(fs, CallPaths.rundir)
        /\ directory_exists(fs, CallPaths.tbldir)
        /\ directory_exists(fs, CallPaths.idxdir)
        /\ directory_exists(fs, CallPaths.cdcdir)

\* a call with restart succeeded on a work directory that held the pidfile
\* of a process no longer running
C38_Witness ==
    /\ CallPending
    /\ call.outcome = "ok"
    /\ call.restart
    /\ file_exists(call.before, CallPaths.pidfile)
    /\ fs.files[CallPaths.pidfile] = call.pid

\* C39: whenever copydb_init_workdir fails because another process is
\* running, because the previous run is complete or because the previous run
\* needs --resume, the pidfile does not hold the pid of the caller, the
\* directories are those of before, and every file other than the pidfile,
\* done markers and lock files included, is there as before and no other.
C39_FailureChangesNothing ==
    (CallPending /\ Failed) =>
        /\ ~( /\ file_exists(fs, CallPaths.pidfile)
              /\ fs.files[CallPaths.pidfile] = call.pid )
        /\ fs.dirs = call.before.dirs
        /\ (DOMAIN fs.files) \ {CallPaths.pidfile}
              = (DOMAIN call.before.files) \ {CallPaths.pidfile}
        /\ \A p \in (DOMAIN fs.files) \ {CallPaths.pidfile} :
              fs.files[p] = call.before.files[p]

\* a call failed, asking for --resume, on a work directory that held a lock
\* file, a done file and done markers
C39_Witness ==
    /\ CallPending
    /\ call.outcome = "NeedsResumeOrRestart"
    /\ \E i \in WorkItems : file_exists(call.before, TablePaths(i).lockFile)
    /\ \E i \in WorkItems : file_exists(call.before, TablePaths(i).doneFile)
    /\ file_exists(fs, Paths.done.preDataDump)

====
